---- MODULE Spec2Model ----
(***************************************************************************)
(* Verification model of the basketball data aggregation layer:            *)
(*   - the EuroLeague adapter (V1 XML results feed + V2 JSON schedule      *)
(*     feed, merge, sort)            src/src/services/euroleagueApi.ts     *)
(*   - the Genius Sports adapter     src/src/services/geniusSportsApi.ts   *)
(*   - the API-Sports adapter        src/src/services/apiSportsApi.ts      *)
(*   - the data provider (routing and mock fallback)                       *)
(*                                   src/src/services/dataProvider.ts      *)
(*                                                                         *)
(* Conventions.  Instants are whole hours since an epoch (UTC); a calendar *)
(* day d covers the hours 24*d .. 24*d+23.  The local time zone is an      *)
(* offset tz in hours (local = UTC + tz).  JavaScript values that may be   *)
(* undefined, null or NaN are records [k, v] with k in "num", "undef",     *)
(* "null", "nan".  Text is a sequence of one-character strings.            *)
(***************************************************************************)
EXTENDS Integers, Sequences, FiniteSets, TLC

VARIABLES
    mode,              \* which entry point this behaviour exercises
    tz,                \* environment: local time-zone offset in hours
    now,               \* environment: current instant (hours)
    pc,                \* position of the call: "idle", "fetching", "done"
    requests,          \* HTTP requests issued so far, in order
    v1st, v2st,        \* each feed's promise: "none", "pending", "fulfilled", "rejected"
    v1resp, v2resp,    \* the HTTP outcome each feed received
    completedMatches,  \* value fetchCompletedMatches resolved with
    upcomingMatches,   \* value fetchUpcomingMatches resolved with
    caught,            \* errors the two feed fetchers caught and logged (console.warn)
    settled,           \* the feeds ("V1", "V2") in the order their fetchers settled
    result,            \* list returned by fetchEuroLeagueMatches
    thrown,            \* error raised to the caller ([name |-> "none"] if none)
    dpFlag,            \* data provider: USE_MOCK_FALLBACK
    dpPc,              \* data provider: "idle", "awaiting" (the adapter's promise), "done"
    dpCall,            \* data provider: the call in progress [op, leagueId, matchId]
    dpAdapter,         \* data provider: how the selected adapter's promise settled
    dpResult,          \* data provider: value the call resolved with
    dpThrown,          \* data provider: error the call rejected with
    dpProbes,          \* data provider: providers a call without league id probed, in order
    stOp,              \* status rules: the function applied ("none" before)
    stIn,              \* status rules: the provider record it was applied to
    stOut,             \* status rules: the Match it produced
    stAgain,           \* status rules: the Match a later parse of the same record produced
    mdPc,              \* match details: "idle", "matches", "stats", "done"
    mdCall,            \* match details: the call in progress [fn, matchId]
    mdMatches,         \* match details: the provider's match list the call fetched
    mdResult,          \* match details: what the call resolved or rejected with
    fdPc,              \* single feed: "idle", "waiting" (for the HTTP response), "done"
    fdCall,            \* single feed: the call in progress [fn, leagueId]
    fdRequests,        \* single feed: HTTP requests the call issued, in order
    fdResponse,        \* single feed: the HTTP outcome the request received
    fdResult,          \* single feed: what the call resolved or rejected with
    homePage,          \* web HomePage component: its state, timers and fetches in flight
    matchDetail,       \* web MatchDetail component: its state, interval and loads in flight
    detailViewModel,   \* iOS MatchDetailViewModel: its state, task and refreshes in flight
    homeViewModel      \* iOS HomeViewModel: its state and timers

elVars == <<pc, requests, v1st, v2st, v1resp, v2resp, completedMatches,
            upcomingMatches, caught, settled, result, thrown>>
envVars == <<mode, tz, now>>
dpVars == <<dpFlag, dpPc, dpCall, dpAdapter, dpResult, dpThrown, dpProbes>>
stVars == <<stOp, stIn, stOut, stAgain>>
mdVars == <<mdPc, mdCall, mdMatches, mdResult>>
fdVars == <<fdPc, fdCall, fdRequests, fdResponse, fdResult>>
viewVars == <<homePage, matchDetail, detailViewModel, homeViewModel>>
vars == <<mode, tz, now, pc, requests, v1st, v2st, v1resp, v2resp,
          completedMatches, upcomingMatches, caught, settled, result, thrown,
          dpFlag, dpPc, dpCall, dpAdapter, dpResult, dpThrown, dpProbes, stOp, stIn, stOut, stAgain,
          mdPc, mdCall, mdMatches, mdResult,
          fdPc, fdCall, fdRequests, fdResponse, fdResult,
          homePage, matchDetail, detailViewModel, homeViewModel>>

----------------------------------------------------------------------------
(* Bounds of the model *)

\* longest list of games a feed response carries
MaxGames == 2

----------------------------------------------------------------------------
(* JavaScript values *)

Num(n) == [k |-> "num", v |-> n]
Undef == [k |-> "undef", v |-> 0]
Null == [k |-> "null", v |-> 0]
NaN == [k |-> "nan", v |-> 0]
IsNum(x) == x.k = "num"

\* x ?? undefined
NullishToUndef(x) == IF x.k \in {"null", "undef"} THEN Undef ELSE x

Digits == {"0", "1", "2", "3", "4", "5", "6", "7", "8", "9"}

DigitVal(c) ==
    CASE c = "0" -> 0 [] c = "1" -> 1 [] c = "2" -> 2 [] c = "3" -> 3
      [] c = "4" -> 4 [] c = "5" -> 5 [] c = "6" -> 6 [] c = "7" -> 7
      [] c = "8" -> 8 [] c = "9" -> 9

\* length of the longest prefix of text made of decimal digits
RECURSIVE DigitPrefixLen(_)
DigitPrefixLen(text) ==
    IF text = <<>> \/ Head(text) \notin Digits THEN 0
    ELSE 1 + DigitPrefixLen(Tail(text))

RECURSIVE DigitsValue(_, _)
DigitsValue(text, acc) ==
    IF text = <<>> THEN acc
    ELSE DigitsValue(Tail(text), 10 * acc + DigitVal(Head(text)))

\* parseInt(text, 10) on trimmed, unsigned text: the leading digits, else NaN
ParseInt(text) ==
    LET n == DigitPrefixLen(text)
    IN IF n = 0 THEN NaN ELSE Num(DigitsValue(SubSeq(text, 1, n), 0))

\* /^\d+$/.test(text)
AllDigits(text) == text # <<>> /\ DigitPrefixLen(text) = Len(text)

----------------------------------------------------------------------------
(* Dates.  A date string is [fmt, day, hour]:                              *)
(*   "MDY"   free text "Jan 14, 2026"            (day)                     *)
(*   "ISO"   date only "2026-01-14"              (day)                     *)
(*   "ISOZ"  timestamp "2026-01-21T19:00:00.000Z" (day, hour; UTC)         *)
(*   "LOCALT" date and time without zone "2026-01-14T12:00:00" (local)     *)
(*   "BAD"   text that Date cannot parse (empty, "TBD", ...)               *)

DateStr(fmt, day, hour) == [fmt |-> fmt, day |-> day, hour |-> hour]
BadDate == DateStr("BAD", 0, 0)

\* a Date object: [nan, t], t the instant in hours
ValidTime(t) == [nan |-> FALSE, t |-> t]
InvalidTime == [nan |-> TRUE, t |-> 0]

\* new Date(dateString) in a runtime whose local offset is zone
NewDate(s, zone) ==
    CASE s.fmt = "MDY" -> ValidTime(24 * s.day - zone)
      [] s.fmt = "ISO" -> ValidTime(24 * s.day)
      [] s.fmt = "ISOZ" -> ValidTime(24 * s.day + s.hour)
      [] s.fmt = "LOCALT" -> ValidTime(24 * s.day + s.hour - zone)
      [] OTHER -> InvalidTime

\* date.toISOString().split('T')[0]: the UTC calendar date
ToISODate(d) == DateStr("ISO", d.t \div 24, 0)

\* getFullYear/getMonth/getDate: the local calendar date
ToLocalDate(d, zone) == DateStr("ISO", (d.t + zone) \div 24, 0)

\* local hour of day (toLocaleTimeString, getHours)
LocalHour(d, zone) == (d.t + zone) % 24

----------------------------------------------------------------------------
(* Errors *)

NoError == [name |-> "none", msg |-> "", statusCode |-> Undef]

\* new APIError(message, statusCode)
APIError(msg, statusCode) == [name |-> "APIError", msg |-> msg, statusCode |-> statusCode]

\* an untyped runtime error (SyntaxError of response.json(), RangeError of toISOString)
RuntimeError(name) == [name |-> name, msg |-> "", statusCode |-> Undef]

----------------------------------------------------------------------------
(* Canonical Match and the insertion-ordered Map<string, Match> *)

TBC == [k |-> "tbc", v |-> 0]

\* matchMap.has(key)
MapHas(m, key) == \E i \in 1..Len(m) : m[i].key = key

\* matchMap.set(key, value): an existing key keeps its place and takes the new value
MapSet(m, key, value) ==
    IF MapHas(m, key)
    THEN [i \in 1..Len(m) |-> IF m[i].key = key THEN [key |-> key, value |-> value] ELSE m[i]]
    ELSE Append(m, [key |-> key, value |-> value])

\* Array.from(matchMap.values())
MapValues(m) == [i \in 1..Len(m) |-> m[i].value]

----------------------------------------------------------------------------
(* EuroLeague adapter: src/src/services/euroleagueApi.ts *)

\* response.ok
ResponseOk(resp) == resp.status \in 200..299

\* fetchXMLFromEuroLeague: outcome [err, doc] for one HTTP outcome of the V1 API
fetchXMLFromEuroLeague(resp) ==
    IF resp.kind = "neterr"
    THEN [err |-> APIError("EuroLeague API network error", Undef), doc |-> <<>>]
    ELSE IF ~ResponseOk(resp)
    THEN [err |-> APIError("EuroLeague API request failed", Num(resp.status)), doc |-> <<>>]
    ELSE IF resp.body = "empty"
    THEN [err |-> APIError("Empty response from EuroLeague API", Undef), doc |-> <<>>]
    ELSE IF resp.body = "malformed"
    THEN [err |-> APIError("Failed to parse XML from EuroLeague API", Undef), doc |-> <<>>]
    ELSE [err |-> NoError, doc |-> resp.games]

\* fetchJSONFromEuroLeagueV2: outcome [err, data] for one HTTP outcome of the V2 API
fetchJSONFromEuroLeagueV2(resp) ==
    IF resp.kind = "neterr"
    THEN [err |-> APIError("EuroLeague V2 API network error", Undef), data |-> <<>>]
    ELSE IF ~ResponseOk(resp)
    THEN [err |-> APIError("EuroLeague V2 API request failed", Num(resp.status)), data |-> <<>>]
    ELSE IF resp.body = "malformed"
    THEN [err |-> RuntimeError("SyntaxError"), data |-> <<>>]
    ELSE IF resp.body = "null" \/ resp.envelope # "success"
    THEN [err |-> APIError("Invalid response from EuroLeague V2 API", Undef), data |-> <<>>]
    ELSE [err |-> NoError, data |-> resp.data]

\* one <game> element of parseGamesXML: element texts to a ParsedGame
parseGameElement(el) ==
    [gameCode |-> el.gamecode,
     date |-> el.date,
     time |-> el.time,
     homeScore |-> IF el.homescore # <<>> THEN ParseInt(el.homescore) ELSE Null,
     awayScore |-> IF el.awayscore # <<>> THEN ParseInt(el.awayscore) ELSE Null,
     played |-> (el.played = "true")]

\* parseGamesXML
parseGamesXML(doc) == [i \in 1..Len(doc) |-> parseGameElement(doc[i])]

\* parseDate inside transformParsedGame
parseDate(dateStr, zone) ==
    LET date == NewDate(dateStr, zone)
    IN IF ~date.nan THEN ToISODate(date) ELSE dateStr

\* gameDate < now inside transformParsedGame (a comparison with an invalid date is false)
isPast(dateStr, zone, nowT) ==
    LET gameDate == NewDate(dateStr, zone)
    IN ~gameDate.nan /\ gameDate.t < nowT

\* status expression of transformParsedGame
playedStatus(played, past) ==
    IF played THEN "completed" ELSE IF past THEN "completed" ELSE "scheduled"

\* transformParsedGame
transformParsedGame(game, zone, nowT) ==
    LET dateStr == parseDate(game.date, zone)
    IN [id |-> game.gameCode,
        homeScore |-> NullishToUndef(game.homeScore),
        awayScore |-> NullishToUndef(game.awayScore),
        date |-> dateStr,
        time |-> IF game.time.k = "num" THEN game.time ELSE TBC,
        venue |-> "TBC",
        status |-> playedStatus(game.played, isPast(dateStr, zone, nowT))]

\* toISOString() of an invalid Date throws RangeError
transformV2GameThrows(game, zone) == NewDate(game.date, zone).nan

\* transformV2Game, for a game whose date parses
transformV2Game(game, zone) ==
    LET gameDate == NewDate(game.date, zone)
        status == IF game.status = "result" THEN "completed" ELSE "scheduled"
    IN [id |-> game.identifier,
        homeScore |-> IF status = "completed" THEN Num(game.homeScore) ELSE Undef,
        awayScore |-> IF status = "completed" THEN Num(game.awayScore) ELSE Undef,
        date |-> ToISODate(gameDate),
        time |-> Num(LocalHour(gameDate, zone)),
        venue |-> IF game.venue = "" THEN "TBC" ELSE game.venue,
        status |-> status]

\* mutant: the catch block rethrows instead of returning []
fetchCompletedMatchesRethrow(resp, zone, nowT) ==
    LET r == fetchXMLFromEuroLeague(resp)
        games == parseGamesXML(r.doc)
    IN IF r.err.name # "none"
       THEN [value |-> <<>>, caught |-> r.err, raised |-> r.err]
       ELSE [value |-> [i \in 1..Len(games) |-> transformParsedGame(games[i], zone, nowT)],
             caught |-> NoError, raised |-> NoError]

\* fetchCompletedMatches.  Outcome of the promise: [value, caught, raised], where
\* caught is the error the catch block logged and raised the error it rejects with
fetchCompletedMatches(resp, zone, nowT) ==
    LET r == fetchXMLFromEuroLeague(resp)
        games == parseGamesXML(r.doc)
    IN IF r.err.name # "none"
       THEN [value |-> <<>>, caught |-> r.err, raised |-> NoError]
       ELSE [value |-> [i \in 1..Len(games) |-> transformParsedGame(games[i], zone, nowT)],
             caught |-> NoError, raised |-> NoError]

\* fetchUpcomingMatches.  Outcome of the promise: [value, caught, raised]
fetchUpcomingMatches(resp, zone) ==
    LET r == fetchJSONFromEuroLeagueV2(resp)
    IN IF r.err.name # "none"
       THEN [value |-> <<>>, caught |-> r.err, raised |-> NoError]
       ELSE IF \E i \in 1..Len(r.data) : transformV2GameThrows(r.data[i], zone)
       THEN [value |-> <<>>, caught |-> RuntimeError("RangeError"), raised |-> NoError]
       ELSE [value |-> [i \in 1..Len(r.data) |-> transformV2Game(r.data[i], zone)],
             caught |-> NoError, raised |-> NoError]

\* the loop over completedMatches: matchMap.set(match.id, match)
RECURSIVE addCompleted(_, _)
addCompleted(m, matches) ==
    IF matches = <<>> THEN m
    ELSE addCompleted(MapSet(m, Head(matches).id, Head(matches)), Tail(matches))

\* mutant: the schedule entry is set without asking matchMap.has
addUpcomingOneOverwrite(m, match) == MapSet(m, match.id, match)

\* mutant: the has-check inverted
addUpcomingOneInverted(m, match) ==
    IF MapHas(m, match.id) THEN MapSet(m, match.id, match) ELSE m

\* body of the loop over upcomingMatches: set only when the id is not present
addUpcomingOne(m, match) ==
    IF ~MapHas(m, match.id) THEN MapSet(m, match.id, match) ELSE m

RECURSIVE addUpcoming(_, _)
addUpcoming(m, matches) ==
    IF matches = <<>> THEN m
    ELSE addUpcoming(addUpcomingOne(m, Head(matches)), Tail(matches))

\* the comparator (a, b) => new Date(a.date).getTime() - new Date(b.date).getTime()
compareByDate(a, b, zone) ==
    LET dateA == NewDate(a.date, zone)
        dateB == NewDate(b.date, zone)
    IN IF dateA.nan \/ dateB.nan THEN NaN ELSE Num(dateA.t - dateB.t)

\* Array.prototype.sort's use of the comparator: a NaN result counts as +0
SortCompare(a, b, zone) ==
    LET c == compareByDate(a, b, zone)
    IN IF c.k = "nan" THEN 0 ELSE c.v

Front(s) == SubSeq(s, 1, Len(s) - 1)
Last(s) == s[Len(s)]

\* stable insertion of x into s, from the right, by the comparator's answers
RECURSIVE InsertByCompare(_, _, _)
InsertByCompare(s, x, zone) ==
    IF s = <<>> THEN <<x>>
    ELSE IF SortCompare(Last(s), x, zone) > 0
    THEN Append(InsertByCompare(Front(s), x, zone), Last(s))
    ELSE Append(s, x)

\* allMatches.sort(comparator): stable insertion sort driven by the comparator
RECURSIVE sortByDate(_, _)
sortByDate(s, zone) ==
    IF s = <<>> THEN <<>>
    ELSE InsertByCompare(sortByDate(Front(s), zone), Last(s), zone)

\* the merge of fetchEuroLeagueMatches, before the sort
mergeMatches(completed, upcoming) ==
    MapValues(addUpcoming(addCompleted(<<>>, completed), upcoming))

----------------------------------------------------------------------------
(* Environment and inputs *)

\* local time-zone offsets east and west of UTC
TimeZones == {-5, 0, 2}

\* the calendar days the inputs use
Day1 == 5
Day2 == 6

\* current instants: during Day1, and the day after Day2
Nows == {24 * Day1 + 10, 24 * Day2 + 30}

\* game codes: one game only the results feed has, one both feeds have, one only
\* the schedule feed has
V1Ids == {"E2025_170", "E2025_171"}
V2Ids == {"E2025_171", "E2025_180"}

SeqsUpTo(S, n) == UNION {[1..k -> S] : k \in 0..n}

\* <game> elements of the V1 results XML: played with scores, unplayed without,
\* and one whose <date> text does not parse
V1Element(id, date, time, played, hs, as) ==
    [gamecode |-> id, date |-> date, time |-> time, played |-> played,
     homescore |-> hs, awayscore |-> as]

V1Elements ==
    {V1Element(id, DateStr("MDY", Day1, 0), Num(20), "true", <<"9", "5">>, <<"8", "8">>) : id \in V1Ids}
    \cup {V1Element(id, DateStr("MDY", Day2, 0), Num(19), "false", <<>>, <<>>) : id \in V1Ids}
    \cup {V1Element(id, BadDate, Undef, "true", <<"7", "8">>, <<"8", "2">>) : id \in V1Ids}

\* games of the V2 schedule JSON
V2Game(id, date, status, hs, as, venue) ==
    [identifier |-> id, date |-> date, status |-> status, homeScore |-> hs,
     awayScore |-> as, venue |-> venue]

V2Games ==
    {V2Game(id, DateStr("ISOZ", Day1, 19), "result", 80, 70, "Palau Blaugrana") : id \in V2Ids}
    \cup {V2Game(id, DateStr("ISOZ", Day2, 23), "confirmed", 0, 0, "") : id \in V2Ids}
    \cup {V2Game(id, BadDate, "confirmed", 0, 0, "") : id \in V2Ids}

V1Resp(kind, status, body, games) ==
    [kind |-> kind, status |-> status, body |-> body, games |-> games]

\* HTTP outcomes of GET /results: transport failure, non-2xx, empty body,
\* malformed XML, or a document with a list of games
V1Responses ==
    {V1Resp("neterr", 0, "", <<>>), V1Resp("http", 500, "", <<>>),
     V1Resp("http", 200, "empty", <<>>), V1Resp("http", 200, "malformed", <<>>)}
    \cup {V1Resp("http", 200, "xml", g) : g \in SeqsUpTo(V1Elements, MaxGames)}

V2Resp(kind, status, body, envelope, data) ==
    [kind |-> kind, status |-> status, body |-> body, envelope |-> envelope, data |-> data]

\* HTTP outcomes of GET /games: transport failure, non-2xx, unparsable JSON, a null
\* body, an envelope whose status is missing or not "success", or a list of games
V2Responses ==
    {V2Resp("neterr", 0, "", "", <<>>), V2Resp("http", 500, "", "", <<>>),
     V2Resp("http", 200, "malformed", "", <<>>), V2Resp("http", 200, "null", "", <<>>)}
    \cup {V2Resp("http", 200, "json", e, <<>>) : e \in {"error", "missing"}}
    \cup {V2Resp("http", 200, "json", "success", g) : g \in SeqsUpTo(V2Games, MaxGames)}

NoV1Resp == V1Resp("none", 0, "", <<>>)
NoV2Resp == V2Resp("none", 0, "", "", <<>>)

----------------------------------------------------------------------------
(* fetchEuroLeagueMatches as a process *)

\* no call of fetchEuroLeagueMatches is in progress
IdleEL ==
    /\ pc = "idle"
    /\ requests = <<>>
    /\ v1st = "none" /\ v2st = "none"
    /\ v1resp = NoV1Resp /\ v2resp = NoV2Resp
    /\ completedMatches = <<>> /\ upcomingMatches = <<>>
    /\ caught = <<>>
    /\ settled = <<>>
    /\ result = <<>>
    /\ thrown = NoError

\* no call of the data provider is in progress
IdleProvider ==
    /\ dpFlag = FALSE
    /\ dpPc = "idle"
    /\ dpCall = [op |-> "none", leagueId |-> "", matchId |-> ""]
    /\ dpAdapter = [settled |-> "none", err |-> NoError]
    /\ dpResult = [kind |-> "none", matches |-> <<>>, standings |-> <<>>, details |-> <<>>]
    /\ dpThrown = NoError
    /\ dpProbes = <<>>

\* no status rule has been applied
IdleStatus ==
    /\ stOp = "none"
    /\ stIn = [source |-> "none"]
    /\ stOut = [status |-> "none"]
    /\ stAgain = [status |-> "none"]

\* no match details call is in progress
IdleDetails ==
    /\ mdPc = "idle"
    /\ mdCall = [fn |-> "none", matchId |-> ""]
    /\ mdMatches = <<>>
    /\ mdResult = [kind |-> "none"]

\* a view that is not on screen
NoView == [mounted |-> FALSE]

\* no view is on screen
IdleViews ==
    /\ homePage = NoView
    /\ matchDetail = NoView
    /\ detailViewModel = NoView
    /\ homeViewModel = NoView

\* no single-feed fetch is in progress
IdleFeed ==
    /\ fdPc = "idle"
    /\ fdCall = [fn |-> "none", leagueId |-> ""]
    /\ fdRequests = <<>>
    /\ fdResponse = [kind |-> "none", status |-> 0, body |-> "", games |-> <<>>]
    /\ fdResult = [kind |-> "none", list |-> <<>>, err |-> NoError]

InitEL ==
    /\ mode = "euroleague"
    /\ tz \in TimeZones
    /\ now \in Nows
    /\ IdleEL
    /\ IdleProvider
    /\ IdleStatus
    /\ IdleDetails
    /\ IdleFeed
    /\ IdleViews

\* Promise.all([fetchCompletedMatches(id), fetchUpcomingMatches(id)]): each callee runs
\* to its first await, so both requests are issued before either response is awaited
\* the mutant awaits the first feed before it calls the second
promiseAllCallsAwaitingFirst == <<"V1 /results">>
\* Promise.all([fetchCompletedMatches(..), fetchUpcomingMatches(..)]): the array's two
\* calls run, each up to its fetch, before the await
promiseAllCalls == <<"V1 /results", "V2 /games">>

Call ==
    /\ pc = "idle"
    /\ pc' = "fetching"
    /\ requests' = promiseAllCalls
    /\ v1st' = "pending" /\ v2st' = "pending"
    /\ UNCHANGED <<v1resp, v2resp, completedMatches, upcomingMatches, caught, settled,
                   result, thrown, envVars, dpVars, stVars, mdVars, fdVars, viewVars>>

\* the V1 response arrives; fetchCompletedMatches settles
V1Settle ==
    /\ pc = "fetching" /\ v1st = "pending"
    /\ \E resp \in V1Responses :
         LET r == fetchCompletedMatches(resp, tz, now)
         IN /\ v1resp' = resp
            /\ completedMatches' = r.value
            /\ caught' = IF r.caught.name # "none" THEN Append(caught, r.caught) ELSE caught
            /\ v1st' = IF r.raised.name # "none" THEN "rejected" ELSE "fulfilled"
            /\ thrown' = IF r.raised.name # "none" /\ thrown.name = "none" THEN r.raised ELSE thrown
    /\ settled' = Append(settled, "V1")
    /\ UNCHANGED <<pc, requests, v2st, v2resp, upcomingMatches, result, envVars, dpVars, stVars, mdVars, fdVars, viewVars>>

\* the V2 response arrives; fetchUpcomingMatches settles
V2Settle ==
    /\ pc = "fetching" /\ v2st = "pending"
    /\ \E resp \in V2Responses :
         LET r == fetchUpcomingMatches(resp, tz)
         IN /\ v2resp' = resp
            /\ upcomingMatches' = r.value
            /\ caught' = IF r.caught.name # "none" THEN Append(caught, r.caught) ELSE caught
            /\ v2st' = IF r.raised.name # "none" THEN "rejected" ELSE "fulfilled"
            /\ thrown' = IF r.raised.name # "none" /\ thrown.name = "none" THEN r.raised ELSE thrown
    /\ settled' = Append(settled, "V2")
    /\ UNCHANGED <<pc, requests, v1st, v1resp, completedMatches, result, envVars, dpVars, stVars, mdVars, fdVars, viewVars>>

\* a merge that lets the response that arrived first win a shared id
MergeAndReturnInArrivalOrder ==
    /\ pc = "fetching" /\ v1st \in {"fulfilled", "rejected"} /\ v2st \in {"fulfilled", "rejected"}
    /\ result' = IF thrown.name # "none" THEN <<>>
                 ELSE IF settled[1] = "V1"
                      THEN sortByDate(mergeMatches(completedMatches, upcomingMatches), tz)
                      ELSE sortByDate(mergeMatches(upcomingMatches, completedMatches), tz)
    /\ pc' = "done"
    /\ UNCHANGED <<requests, v1st, v2st, v1resp, v2resp, completedMatches,
                   upcomingMatches, caught, settled, thrown, envVars, dpVars, stVars, mdVars, fdVars, viewVars>>

\* await Promise.all settles: it rejects with the first rejection (thrown), and
\* otherwise the function merges by id, sorts by date and returns
MergeAndReturn ==
    /\ pc = "fetching" /\ v1st \in {"fulfilled", "rejected"} /\ v2st \in {"fulfilled", "rejected"}
    /\ result' = IF thrown.name # "none" THEN <<>>
                 ELSE sortByDate(mergeMatches(completedMatches, upcomingMatches), tz)
    /\ pc' = "done"
    /\ UNCHANGED <<requests, v1st, v2st, v1resp, v2resp, completedMatches,
                   upcomingMatches, caught, settled, thrown, envVars, dpVars, stVars, mdVars, fdVars, viewVars>>

Next == Call \/ V1Settle \/ V2Settle \/ MergeAndReturn

Spec == InitEL /\ [][Next]_vars

----------------------------------------------------------------------------
(* Properties of fetchEuroLeagueMatches *)

IdsOf(list) == {list[i].id : i \in 1..Len(list)}

\* the last entry of list that has the id
LastWithId(list, id) ==
    list[CHOOSE i \in 1..Len(list) :
            list[i].id = id /\ \A j \in (i + 1)..Len(list) : list[j].id # id]

\* the call returned a list (it did not raise)
Returned == pc = "done" /\ thrown.name = "none"

\* C1: for every match id present in both the results (V1) list and the schedule
\* (V2) list, the merged output's one entry for that id is the V1 entry, with its
\* scores and status; a V2 entry never replaces or alters it.
C1_MergePrecedence ==
    Returned =>
        \A id \in IdsOf(completedMatches) \cap IdsOf(upcomingMatches) :
            /\ \E i \in 1..Len(result) : result[i].id = id
            /\ \A i \in 1..Len(result) :
                 result[i].id = id => result[i] = LastWithId(completedMatches, id)

\* an id in both lists whose V2 entry differs from the V1 entry, after the merge
C1_Witness ==
    /\ Returned
    /\ \E id \in IdsOf(completedMatches) \cap IdsOf(upcomingMatches) :
         \E j \in 1..Len(upcomingMatches) :
            /\ upcomingMatches[j].id = id
            /\ upcomingMatches[j].status # LastWithId(completedMatches, id).status
            /\ upcomingMatches[j].homeScore # LastWithId(completedMatches, id).homeScore

\* C2: the merged output holds every id that occurs in either input exactly once
\* and no other id, also when an input repeats an id within itself.
C2_NoDuplicateNoLoss ==
    Returned =>
        /\ IdsOf(result) = IdsOf(completedMatches) \cup IdsOf(upcomingMatches)
        /\ \A i, j \in 1..Len(result) : result[i].id = result[j].id => i = j

\* both inputs repeat an id within themselves and the inputs share an id
C2_Witness ==
    /\ Returned
    /\ Len(completedMatches) > Cardinality(IdsOf(completedMatches))
    /\ Len(upcomingMatches) > Cardinality(IdsOf(upcomingMatches))
    /\ IdsOf(completedMatches) \cap IdsOf(upcomingMatches) # {}
    /\ Len(result) = 1

\* position of the entry with the id in the merged list, before the sort
MergedIndex(id) ==
    LET merged == mergeMatches(completedMatches, upcomingMatches)
    IN CHOOSE i \in 1..Len(merged) : merged[i].id = id

\* C3: whatever the date strings, the returned list is in ascending order of date,
\* and entries with equal dates keep their insertion order (V1 entries in feed
\* order, then the V2-only entries in feed order).
C3_SortedByDate ==
    Returned =>
        \A i, j \in 1..Len(result) :
            LET a == NewDate(result[i].date, tz)
                b == NewDate(result[j].date, tz)
            IN (i < j /\ ~a.nan /\ ~b.nan) =>
                  /\ a.t <= b.t
                  /\ a.t = b.t => MergedIndex(result[i].id) < MergedIndex(result[j].id)

\* the response of the V1 feed is a failure: transport error, non-2xx status,
\* empty or malformed body
V1FeedFails(resp) ==
    \/ resp.kind = "neterr"
    \/ resp.status \notin 200..299
    \/ resp.body \in {"empty", "malformed"}

\* the response of the V2 feed is a failure: transport error, non-2xx status,
\* unparsable or null body, an envelope that does not say "success", or a game
\* whose date cannot be parsed
V2FeedFails(resp) ==
    \/ resp.kind = "neterr"
    \/ resp.status \notin 200..299
    \/ resp.body \in {"malformed", "null"}
    \/ resp.envelope # "success"
    \/ \E i \in 1..Len(resp.data) : resp.data[i].date.fmt = "BAD"

\* C4: if both the V1 and the V2 fetch fail, fetchEuroLeagueMatches raises an error
\* to its caller and does not return an empty list instead.
C4_BothFailRaises ==
    (pc = "done" /\ V1FeedFails(v1resp) /\ V2FeedFails(v2resp)) => thrown.name # "none"

\* list is free of repeated ids, holds every id of feed, and only entries of feed
ExactlyTheMatchesOf(list, feed) ==
    /\ IdsOf(list) = IdsOf(feed)
    /\ \A i, j \in 1..Len(list) : list[i].id = list[j].id => i = j
    /\ \A i \in 1..Len(list) : \E j \in 1..Len(feed) : list[i] = feed[j]

\* C5: if exactly one of the two feeds fails, fetchEuroLeagueMatches raises no error
\* and returns exactly the matches of the feed that succeeded.
C5_PartialFailure ==
    /\ (pc = "done" /\ V1FeedFails(v1resp) /\ ~V2FeedFails(v2resp)) =>
          (thrown.name = "none" /\ ExactlyTheMatchesOf(result, upcomingMatches))
    /\ (pc = "done" /\ ~V1FeedFails(v1resp) /\ V2FeedFails(v2resp)) =>
          (thrown.name = "none" /\ ExactlyTheMatchesOf(result, completedMatches))

\* the V1 feed answered 500, the V2 feed delivered games, and they were returned
C5_Witness ==
    /\ pc = "done"
    /\ v1resp.status = 500 /\ ~V2FeedFails(v2resp)
    /\ Len(upcomingMatches) = MaxGames
    /\ Len(result) = MaxGames

\* C7: a V2 response whose status field is missing or not "success" makes the
\* upcoming-matches fetch raise a typed error; it is never turned into an empty list.
C7_BadEnvelopeRaises ==
    (v2resp.kind = "http" /\ v2resp.status = 200 /\ v2resp.body = "json"
        /\ v2resp.envelope # "success")
    => (v2st = "rejected" /\ thrown.name = "APIError")

----------------------------------------------------------------------------
(* League configuration and the mock provider *)

\* predefinedLeagues: the id and the apiProvider of each configured league
predefinedLeagues ==
    << [id |-> "super-league", apiProvider |-> "geniussports"],
       [id |-> "slb-trophy", apiProvider |-> "geniussports"],
       [id |-> "slb-cup", apiProvider |-> "geniussports"],
       [id |-> "euroleague", apiProvider |-> "euroleague"],
       [id |-> "eurocup", apiProvider |-> "euroleague"] >>

\* getApiProvider: getLeagueConfig(leagueId)?.apiProvider ?? 'mock'
getApiProvider(leagueId) ==
    IF \E i \in DOMAIN predefinedLeagues : predefinedLeagues[i].id = leagueId
    THEN predefinedLeagues[CHOOSE i \in DOMAIN predefinedLeagues :
                              predefinedLeagues[i].id = leagueId].apiProvider
    ELSE "mock"

\* an entry of a canned data set: its id, the data set it belongs to, its status
MockMatch(id, league, status) == [id |-> id, league |-> league, status |-> status]
MockRow(team, league) == [team |-> team, league |-> league]

mockMatches ==
    <<MockMatch("1", "super-league", "completed"), MockMatch("7", "super-league", "scheduled")>>
euroleagueMockMatches ==
    <<MockMatch("e1", "euroleague", "completed"), MockMatch("e7", "euroleague", "scheduled")>>
eurocupMockMatches ==
    <<MockMatch("ec1", "eurocup", "completed"), MockMatch("ec6", "eurocup", "scheduled")>>
mockStandings == <<MockRow("London Lions", "super-league")>>
euroleagueMockStandings == <<MockRow("Real Madrid", "euroleague")>>
eurocupMockStandings == <<MockRow("Valencia Basket", "eurocup")>>

\* combined array for searching across all leagues
allMockMatches == mockMatches \o euroleagueMockMatches \o eurocupMockMatches

\* getMockMatchesForLeague
getMockMatchesForLeague(leagueId) ==
    CASE leagueId = "euroleague" -> euroleagueMockMatches
      [] leagueId = "eurocup" -> eurocupMockMatches
      [] OTHER -> mockMatches

\* getMockStandingsForLeague
getMockStandingsForLeague(leagueId) ==
    CASE leagueId = "euroleague" -> euroleagueMockStandings
      [] leagueId = "eurocup" -> eurocupMockStandings
      [] OTHER -> mockStandings

\* values a data provider call resolves with
NoResult == [kind |-> "none", matches |-> <<>>, standings |-> <<>>, details |-> <<>>]
MatchesResult(m) == [kind |-> "matches", matches |-> m, standings |-> <<>>, details |-> <<>>]
StandingsResult(st) == [kind |-> "standings", matches |-> <<>>, standings |-> st, details |-> <<>>]
AllDataResult(m, st) == [kind |-> "all", matches |-> m, standings |-> st, details |-> <<>>]
DetailsResult(d) == [kind |-> "details", matches |-> <<>>, standings |-> <<>>, details |-> <<d>>]
NullResult == [kind |-> "null", matches |-> <<>>, standings |-> <<>>, details |-> <<>>]

\* getMockMatchDetails: the first mock match of any league with the id, with
\* generated statistics unless it is scheduled; null when no mock match has the id
getMockMatchDetails(matchId) ==
    IF \E i \in DOMAIN allMockMatches : allMockMatches[i].id = matchId
    THEN LET match == allMockMatches[CHOOSE i \in DOMAIN allMockMatches :
                          /\ allMockMatches[i].id = matchId
                          /\ \A j \in 1..(i - 1) : allMockMatches[j].id # matchId]
         IN DetailsResult([id |-> match.id, league |-> match.league, status |-> match.status,
                           hasStats |-> match.status \in {"completed", "live"}])
    ELSE NullResult

fetchMockMatches(leagueId) == MatchesResult(getMockMatchesForLeague(leagueId))
fetchMockStandings(leagueId) == StandingsResult(getMockStandingsForLeague(leagueId))
fetchMockAllData(leagueId) ==
    AllDataResult(getMockMatchesForLeague(leagueId), getMockStandingsForLeague(leagueId))
fetchMockMatchDetails(matchId) == getMockMatchDetails(matchId)

----------------------------------------------------------------------------
(* Data provider: src/src/services/dataProvider.ts *)

\* new Error(message)
PlainError(msg) == [name |-> "Error", msg |-> msg, statusCode |-> Undef]

\* league ids a caller passes: the configured leagues and one that is not configured
LeagueIds == {"super-league", "slb-trophy", "slb-cup", "euroleague", "eurocup", "nba"}

\* match ids a caller passes: ids of the three mock data sets and one only the API knows
MatchIds == {"1", "7", "e1", "ec6", "2702593"}

\* what the live APIs deliver for a league
ApiMatches(leagueId) == <<MockMatch("2702593", leagueId, "completed")>>
ApiStandings(leagueId) == <<MockRow("Team 101", leagueId)>>

\* values the selected adapter's promise can fulfil with
AdapterValues(call) ==
    CASE call.op = "fetchMatches" ->
            {MatchesResult(<<>>), MatchesResult(ApiMatches(call.leagueId))}
      [] call.op = "fetchStandings" ->
            {StandingsResult(<<>>), StandingsResult(ApiStandings(call.leagueId))}
      [] call.op = "fetchAllData" ->
            {AllDataResult(ApiMatches(call.leagueId), ApiStandings(call.leagueId))}
      [] call.op = "fetchMatchDetails" ->
            IF \E i \in DOMAIN ApiMatches(call.leagueId) :
                  ApiMatches(call.leagueId)[i].id = call.matchId
            THEN {DetailsResult([id |-> call.matchId, league |-> call.leagueId,
                                 status |-> "completed", hasStats |-> TRUE])}
            ELSE {NullResult}

\* errors fetchEuroLeagueMatches can reject with: those its two feed fetchers raise
euroleagueMatchesRejections ==
    ({fetchCompletedMatches(r, tz, now).raised : r \in V1Responses}
        \cup {fetchUpcomingMatches(r, tz).raised : r \in V2Responses}) \ {NoError}

\* errors fetchEuroLeagueStandings can reject with: those of fetchXMLFromEuroLeague
euroleagueStandingsRejections ==
    {fetchXMLFromEuroLeague(r).err : r \in V1Responses} \ {NoError}

\* errors the selected adapter's promise can reject with.  The Genius Sports adapter
\* rejects with the Error of fetchFromGeniusSports, or with the TypeError of fetch
AdapterRejections(call) ==
    CASE getApiProvider(call.leagueId) = "geniussports" ->
            {PlainError("Genius Sports API error: 500"), RuntimeError("TypeError")}
      [] getApiProvider(call.leagueId) = "euroleague" ->
            CASE call.op \in {"fetchMatches", "fetchMatchDetails"} -> euroleagueMatchesRejections
              [] call.op = "fetchStandings" -> euroleagueStandingsRejections
              [] call.op = "fetchAllData" ->
                    euroleagueMatchesRejections \cup euroleagueStandingsRejections
      [] OTHER -> {}

\* what the mock provider resolves with for the call
mockProviderCall(call) ==
    CASE call.op = "fetchMatches" -> fetchMockMatches(call.leagueId)
      [] call.op = "fetchStandings" -> fetchMockStandings(call.leagueId)
      [] call.op = "fetchAllData" -> fetchMockAllData(call.leagueId)
      [] call.op = "fetchMatchDetails" -> fetchMockMatchDetails(call.matchId)

\* mutant: the catch block substitutes mock data whatever the flag says
catchBlockIgnoresFlag(call, flag, error) ==
    [value |-> mockProviderCall(call), raised |-> NoError]

\* the catch block of the four functions: [value returned, error rethrown]
catchBlock(call, flag, error) ==
    IF flag
    THEN [value |-> mockProviderCall(call), raised |-> NoError]
    ELSE [value |-> NoResult, raised |-> error]

InitProvider ==
    /\ mode = "provider"
    /\ tz \in TimeZones
    /\ now \in Nows
    /\ IdleEL
    /\ IdleStatus
    /\ IdleDetails
    /\ IdleFeed
    /\ IdleViews
    /\ dpFlag \in BOOLEAN
    /\ dpPc = "idle"
    /\ dpCall = [op |-> "none", leagueId |-> "", matchId |-> ""]
    /\ dpAdapter = [settled |-> "none", err |-> NoError]
    /\ dpResult = NoResult
    /\ dpThrown = NoError
    /\ dpProbes = <<>>

\* the switch on getApiProvider(leagueId): a league without an API is answered by the
\* mock provider at once, any other call awaits the selected adapter
routeCall(call) ==
    /\ dpCall' = call
    /\ IF getApiProvider(call.leagueId) = "mock"
       THEN dpPc' = "done" /\ dpResult' = mockProviderCall(call)
       ELSE dpPc' = "awaiting" /\ UNCHANGED dpResult
    /\ UNCHANGED <<dpFlag, dpAdapter, dpThrown, dpProbes, envVars, elVars, stVars, mdVars, fdVars, viewVars>>

fetchMatches(leagueId) ==
    /\ dpPc = "idle"
    /\ routeCall([op |-> "fetchMatches", leagueId |-> leagueId, matchId |-> ""])

fetchStandings(leagueId) ==
    /\ dpPc = "idle"
    /\ routeCall([op |-> "fetchStandings", leagueId |-> leagueId, matchId |-> ""])

fetchAllData(leagueId) ==
    /\ dpPc = "idle"
    /\ routeCall([op |-> "fetchAllData", leagueId |-> leagueId, matchId |-> ""])

\* fetchMatchDetails(matchId, leagueId) with a league id
fetchMatchDetails(matchId, leagueId) ==
    /\ dpPc = "idle"
    /\ routeCall([op |-> "fetchMatchDetails", leagueId |-> leagueId, matchId |-> matchId])

\* the awaited adapter promise fulfils: its value is returned
AdapterFulfils ==
    /\ dpPc = "awaiting"
    /\ \E v \in AdapterValues(dpCall) :
         /\ dpAdapter' = [settled |-> "fulfilled", err |-> NoError]
         /\ dpResult' = v
    /\ dpPc' = "done"
    /\ UNCHANGED <<dpFlag, dpCall, dpThrown, dpProbes, envVars, elVars, stVars, mdVars, fdVars, viewVars>>

\* the awaited adapter promise rejects: the catch block runs
AdapterRejects ==
    /\ dpPc = "awaiting"
    /\ \E e \in AdapterRejections(dpCall) :
         LET r == catchBlock(dpCall, dpFlag, e)
         IN /\ dpAdapter' = [settled |-> "rejected", err |-> e]
            /\ dpResult' = r.value
            /\ dpThrown' = r.raised
    /\ dpPc' = "done"
    /\ UNCHANGED <<dpFlag, dpCall, dpProbes, envVars, elVars, stVars, mdVars, fdVars, viewVars>>

NextProvider ==
    \/ \E leagueId \in LeagueIds : fetchMatches(leagueId)
    \/ \E leagueId \in LeagueIds : fetchStandings(leagueId)
    \/ \E leagueId \in LeagueIds : fetchAllData(leagueId)
    \/ \E leagueId \in LeagueIds, matchId \in MatchIds : fetchMatchDetails(matchId, leagueId)
    \/ AdapterFulfils
    \/ AdapterRejects

SpecProvider == InitProvider /\ [][NextProvider]_vars

----------------------------------------------------------------------------
(* Properties of the data provider *)

\* the call is over and the selected adapter had raised an error
AdapterRaised == dpPc = "done" /\ dpAdapter.settled = "rejected"

\* the list calls return the mock data set of the league
MockListsFor(call) ==
    /\ call.op = "fetchMatches" => dpResult = MatchesResult(getMockMatchesForLeague(call.leagueId))
    /\ call.op = "fetchStandings" =>
          dpResult = StandingsResult(getMockStandingsForLeague(call.leagueId))
    /\ call.op = "fetchAllData" =>
          dpResult = AllDataResult(getMockMatchesForLeague(call.leagueId),
                                   getMockStandingsForLeague(call.leagueId))

\* C6 (as stated): when the selected adapter raises, with the flag off the same error
\* is re-raised and no data is returned; with the flag on nothing is raised and the
\* call returns mock data of that league: the league's mock lists, and for
\* fetchMatchDetails the details of a mock match of that league.
C6_FallbackByFlag ==
    AdapterRaised =>
        IF ~dpFlag
        THEN dpThrown = dpAdapter.err /\ dpResult = NoResult
        ELSE /\ dpThrown = NoError
             /\ MockListsFor(dpCall)
             /\ dpCall.op = "fetchMatchDetails" =>
                   /\ dpResult.kind = "details"
                   /\ dpResult.details[1].id = dpCall.matchId
                   /\ dpCall.matchId \in IdsOf(getMockMatchesForLeague(dpCall.leagueId))

\* C6 (amended): as above, except that the fallback of fetchMatchDetails is looked up
\* by match id alone: it is the details of the mock match with that id, whichever
\* league's mock data holds it, and null when no mock match has the id.
C6_FallbackByFlagAmended ==
    AdapterRaised =>
        IF ~dpFlag
        THEN dpThrown = dpAdapter.err /\ dpResult = NoResult
        ELSE /\ dpThrown = NoError
             /\ MockListsFor(dpCall)
             /\ dpCall.op = "fetchMatchDetails" =>
                   IF dpCall.matchId \in IdsOf(allMockMatches)
                   THEN /\ dpResult.kind = "details"
                        /\ dpResult.details[1].id = dpCall.matchId
                        /\ \E i \in DOMAIN allMockMatches :
                              /\ allMockMatches[i].id = dpCall.matchId
                              /\ allMockMatches[i].league = dpResult.details[1].league
                   ELSE dpResult = NullResult

\* the Genius Sports adapter failed for an SLB league with the flag on, and the call
\* returned the details of a EuroLeague mock match
C6_Witness ==
    /\ AdapterRaised
    /\ dpFlag
    /\ dpCall.op = "fetchMatchDetails"
    /\ dpCall.leagueId = "super-league"
    /\ dpResult.kind = "details"
    /\ dpResult.details[1].league = "euroleague"

----------------------------------------------------------------------------
(* Text *)

\* String.prototype.includes
Includes(text, sub) ==
    \E i \in 0..(Len(text) - Len(sub)) : SubSeq(text, i + 1, i + Len(sub)) = sub

LowerOf(c) ==
    CASE c = "A" -> "a" [] c = "B" -> "b" [] c = "C" -> "c" [] c = "D" -> "d"
      [] c = "E" -> "e" [] c = "F" -> "f" [] c = "G" -> "g" [] c = "H" -> "h"
      [] c = "I" -> "i" [] c = "J" -> "j" [] c = "K" -> "k" [] c = "L" -> "l"
      [] c = "M" -> "m" [] c = "N" -> "n" [] c = "O" -> "o" [] c = "P" -> "p"
      [] c = "Q" -> "q" [] c = "R" -> "r" [] c = "S" -> "s" [] c = "T" -> "t"
      [] c = "U" -> "u" [] c = "V" -> "v" [] c = "W" -> "w" [] c = "X" -> "x"
      [] c = "Y" -> "y" [] c = "Z" -> "z"
      [] OTHER -> c

\* String.prototype.toLowerCase
ToLowerCase(text) == [i \in 1..Len(text) |-> LowerOf(text[i])]

----------------------------------------------------------------------------
(* EuroLeague adapter, revision src/unnamed/part_008 of transformParsedGame *)

\* parseDate: the local calendar date
parseDate_part008(dateStr, zone) ==
    LET date == NewDate(dateStr, zone)
    IN IF ~date.nan THEN ToLocalDate(date, zone) ELSE dateStr

\* new Date(dateStr + 'T12:00:00') < now: noon, local time, of the calendar date
isPast_part008(dateStr, zone, nowT) ==
    LET gameDate == IF dateStr.fmt = "ISO"
                    THEN NewDate(DateStr("LOCALT", dateStr.day, 12), zone)
                    ELSE InvalidTime
    IN ~gameDate.nan /\ gameDate.t < nowT

transformParsedGame_part008(game, zone, nowT) ==
    LET dateStr == parseDate_part008(game.date, zone)
    IN [id |-> game.gameCode,
        homeScore |-> NullishToUndef(game.homeScore),
        awayScore |-> NullishToUndef(game.awayScore),
        date |-> dateStr,
        time |-> IF game.time.k = "num" THEN game.time ELSE TBC,
        venue |-> "TBC",
        status |-> playedStatus(game.played, isPast_part008(dateStr, zone, nowT))]

----------------------------------------------------------------------------
(* Genius Sports adapter: src/src/services/geniusSportsApi.ts *)

STATUS_COMPLETE == <<"S", "T", "A", "T", "U", "S", "_", "C", "O", "M", "P", "L", "E", "T", "E">>
STATUS_LIVE == <<"S", "T", "A", "T", "U", "S", "_", "L", "I", "V", "E">>
STATUS_SCHEDULED == <<"S", "T", "A", "T", "U", "S", "_", "S", "C", "H", "E", "D", "U", "L", "E", "D">>
MatchWrap == <<"m", "a", "t", "c", "h", "-", "w", "r", "a", "p">>
Space == <<" ">>

\* mutant: the live token is looked for before the complete token
statusFromClassLiveFirst(matchClass) ==
    IF Includes(matchClass, STATUS_LIVE) THEN "live"
    ELSE IF Includes(matchClass, STATUS_COMPLETE) THEN "completed"
    ELSE "scheduled"

\* status from the class attribute of a .match-wrap element
statusFromClass(matchClass) ==
    IF Includes(matchClass, STATUS_COMPLETE) THEN "completed"
    ELSE IF Includes(matchClass, STATUS_LIVE) THEN "live"
    ELSE "scheduled"

\* a score cell: a number only if the trimmed text is all digits
scoreOfText(text) == IF text # <<>> /\ AllDigits(text) THEN ParseInt(text) ELSE Undef

\* parseDateTimeString: local date and local hour of the parsed text, else today and TBC
parseDateTimeString(dateTimeStr, zone, nowT) ==
    LET parsed == NewDate(dateTimeStr, zone)
    IN IF ~parsed.nan
       THEN [date |-> ToLocalDate(parsed, zone), time |-> Num(LocalHour(parsed, zone))]
       ELSE [date |-> ToLocalDate(ValidTime(nowT), zone), time |-> TBC]

\* `match-${matches.length}`
FallbackId(n) == CASE n = 0 -> "match-0" [] n = 1 -> "match-1" [] OTHER -> "match-n"

\* the body of matchElements.forEach for one .match-wrap element, the index-th
parseScheduleRow(row, index, zone, nowT) ==
    LET dt == parseDateTimeString(row.dateTime, zone, nowT)
    IN [id |-> IF row.extfix # "" THEN row.extfix ELSE FallbackId(index),
        homeScore |-> scoreOfText(row.homeScoreText),
        awayScore |-> scoreOfText(row.awayScoreText),
        date |-> dt.date,
        time |-> dt.time,
        venue |-> IF row.venue = "" THEN "TBC" ELSE row.venue,
        status |-> statusFromClass(row.className)]

\* parseScheduleHTML
parseScheduleHTML(rows, zone, nowT) ==
    [i \in 1..Len(rows) |-> parseScheduleRow(rows[i], i - 1, zone, nowT)]

----------------------------------------------------------------------------
(* API-Sports adapter: src/src/services/apiSportsApi.ts *)

Finished == <<"f", "i", "n", "i", "s", "h", "e", "d">>
AfterOverTime == <<"a", "f", "t", "e", "r", " ", "o", "v", "e", "r", " ", "t", "i", "m", "e">>
Quarter == <<"q", "u", "a", "r", "t", "e", "r">>
Halftime == <<"h", "a", "l", "f", "t", "i", "m", "e">>
Break == <<"b", "r", "e", "a", "k">>

isCompleted(statusLong) == statusLong = Finished \/ statusLong = AfterOverTime
isLive(statusLong) ==
    Includes(statusLong, Quarter) \/ statusLong = Halftime \/ statusLong = Break

\* transformGame, for a game whose date parses
transformGame(game, zone) ==
    LET statusLong == ToLowerCase(game.status.long)
        dateObj == NewDate(game.date, zone)
    IN [id |-> game.id,
        homeScore |-> NullishToUndef(game.scores.home),
        awayScore |-> NullishToUndef(game.scores.away),
        date |-> ToISODate(dateObj),
        time |-> IF game.time.k = "num" THEN game.time ELSE Num(LocalHour(dateObj, zone)),
        venue |-> "TBC",
        status |-> IF isLive(statusLong) THEN "live"
                   ELSE IF isCompleted(statusLong) THEN "completed" ELSE "scheduled"]

----------------------------------------------------------------------------
(* The status rules, applied to one provider record *)

\* current instants: Day1 at 10:00 and at 15:00 UTC, and the day after Day2
StatusNows == {24 * Day1 + 10, 24 * Day1 + 15, 24 * Day2 + 30}

\* <game> elements of the V1 results XML: a parsable or unparsable date, a time of
\* day or none, each text of <played>, and score texts that are numbers, empty or
\* a dash
StatusV1Elements ==
    {V1Element("E2025_170", d, t, p, sc[1], sc[2]) :
        d \in {DateStr("MDY", Day1, 0), DateStr("MDY", Day2, 0), BadDate},
        t \in {Num(9), Num(20), Undef},
        p \in {"true", "false", ""},
        sc \in {<<<<"9", "5">>, <<"8", "8">>>>, <<<<>>, <<>>>>, <<<<"-">>, <<"-">>>>}}

\* class attributes of .match-wrap elements
GeniusClassNames ==
    {MatchWrap,
     MatchWrap \o Space \o STATUS_SCHEDULED,
     MatchWrap \o Space \o STATUS_COMPLETE,
     MatchWrap \o Space \o STATUS_LIVE,
     MatchWrap \o Space \o STATUS_COMPLETE \o Space \o STATUS_LIVE,
     MatchWrap \o Space \o STATUS_LIVE \o Space \o STATUS_COMPLETE}

\* texts of the two score cells: numbers, empty cells, dashes, one cell filled
GeniusScoreTexts ==
    {<<<<"7", "8">>, <<"8", "1">>>>, <<<<>>, <<>>>>, <<<<"-">>, <<"-">>>>,
     <<<<"7", "8">>, <<>>>>}

\* .match-wrap elements of the schedule markup; label is the text of the row's
\* status cell ("Final", a quarter label, ...), which the parser does not read
GeniusRows ==
    {[extfix |-> x, className |-> c, homeScoreText |-> sc[1], awayScoreText |-> sc[2],
      label |-> l, dateTime |-> d, venue |-> v] :
        x \in {"2702593", ""},
        c \in GeniusClassNames,
        sc \in GeniusScoreTexts,
        l \in {"Final", "Q3", ""},
        d \in {DateStr("LOCALT", Day1, 19), BadDate},
        v \in {"Copper Box Arena"}}

\* status.long texts of the games endpoint
ApiSportsStatusLongs ==
    {
     <<"N", "o", "t", " ", "S", "t", "a", "r", "t", "e", "d">>,
     <<"Q", "u", "a", "r", "t", "e", "r", " ", "1">>,
     <<"Q", "u", "a", "r", "t", "e", "r", " ", "4">>,
     <<"H", "a", "l", "f", "t", "i", "m", "e">>,
     <<"B", "r", "e", "a", "k", " ", "T", "i", "m", "e">>,
     <<"B", "r", "e", "a", "k">>,
     <<"O", "v", "e", "r", " ", "T", "i", "m", "e">>,
     <<"G", "a", "m", "e", " ", "F", "i", "n", "i", "s", "h", "e", "d">>,
     <<"F", "i", "n", "i", "s", "h", "e", "d">>,
     <<"F", "I", "N", "I", "S", "H", "E", "D">>,
     <<"A", "f", "t", "e", "r", " ", "O", "v", "e", "r", " ", "T", "i", "m", "e">>,
     <<"G", "a", "m", "e", " ", "P", "o", "s", "t", "p", "o", "n", "e", "d">>,
     <<"G", "a", "m", "e", " ", "C", "a", "n", "c", "e", "l", "l", "e", "d">>}

\* games of the API-Sports games endpoint
ApiSportsGames ==
    {[id |-> "391053", date |-> DateStr("ISOZ", Day1, 19), time |-> t,
      status |-> [long |-> l],
      scores |-> [home |-> sc[1], away |-> sc[2]]] :
        t \in {Num(19), Undef},
        l \in ApiSportsStatusLongs,
        sc \in {<<Num(85), Num(78)>>, <<Null, Null>>}}

InitStatus ==
    /\ mode = "status"
    /\ tz \in TimeZones
    /\ now \in StatusNows
    /\ IdleEL
    /\ IdleProvider
    /\ IdleDetails
    /\ IdleFeed
    /\ IdleViews
    /\ IdleStatus

\* transformParsedGame(parseGamesXML(doc)[0]) of src/services/euroleagueApi.ts
ApplyTransformParsedGame ==
    /\ stOp = "none"
    /\ \E el \in StatusV1Elements :
         /\ stIn' = el
         /\ stOut' = transformParsedGame(parseGameElement(el), tz, now)
    /\ stOp' = "transformParsedGame"
    /\ UNCHANGED <<stAgain, envVars, elVars, dpVars, mdVars, fdVars, viewVars>>

\* the same call in the revision src/unnamed/part_008
ApplyTransformParsedGame_part008 ==
    /\ stOp = "none"
    /\ \E el \in StatusV1Elements :
         /\ stIn' = el
         /\ stOut' = transformParsedGame_part008(parseGameElement(el), tz, now)
    /\ stOp' = "transformParsedGame_part008"
    /\ UNCHANGED <<stAgain, envVars, elVars, dpVars, mdVars, fdVars, viewVars>>

\* parseScheduleHTML of a document with one .match-wrap element
ApplyParseScheduleHTML ==
    /\ stOp = "none"
    /\ \E row \in GeniusRows :
         /\ stIn' = row
         /\ stOut' = parseScheduleHTML(<<row>>, tz, now)[1]
    /\ stOp' = "parseScheduleHTML"
    /\ UNCHANGED <<stAgain, envVars, elVars, dpVars, mdVars, fdVars, viewVars>>

\* transformGame of one game of the API-Sports response
ApplyTransformGame ==
    /\ stOp = "none"
    /\ \E game \in ApiSportsGames :
         /\ stIn' = game
         /\ stOut' = transformGame(game, tz)
    /\ stOp' = "transformGame"
    /\ UNCHANGED <<stAgain, envVars, elVars, dpVars, mdVars, fdVars, viewVars>>

\* transformV2Game of one game of the V2 schedule whose date parses (toISOString
\* throws for any other, and no Match is produced)
ApplyTransformV2Game ==
    /\ stOp = "none"
    /\ \E game \in V2Games :
         /\ ~transformV2GameThrows(game, tz)
         /\ stIn' = game
         /\ stOut' = transformV2Game(game, tz)
    /\ stOp' = "transformV2Game"
    /\ UNCHANGED <<stAgain, envVars, elVars, dpVars, mdVars, fdVars, viewVars>>

NextStatus ==
    \/ ApplyTransformParsedGame
    \/ ApplyTransformParsedGame_part008
    \/ ApplyParseScheduleHTML
    \/ ApplyTransformGame
    \/ ApplyTransformV2Game

SpecStatus == InitStatus /\ [][NextStatus]_vars

----------------------------------------------------------------------------
(* Properties of the status rules *)

\* the game's kickoff, its date at its time of day (local wall clock; the start of
\* the day when no time is given), is before the current instant
KickoffBeforeNow(el) ==
    /\ el.date.fmt = "MDY"
    /\ 24 * el.date.day + (IF el.time.k = "num" THEN el.time.v ELSE 0) - tz < now

\* C8: for every game of the played-flag (V1 XML) source, status is completed if
\* played is true; otherwise completed if the kickoff date and time of day are
\* before the current time; otherwise scheduled.
C8_PlayedFlagStatus ==
    stOp \in {"transformParsedGame", "transformParsedGame_part008"} =>
        stOut.status = IF stIn.played = "true" THEN "completed"
                       ELSE IF KickoffBeforeNow(stIn) THEN "completed"
                       ELSE "scheduled"

\* the record carries a finished marker / a live-phase marker
GeniusFinishedMarker(row) == Includes(row.className, STATUS_COMPLETE)
GeniusLiveMarker(row) == Includes(row.className, STATUS_LIVE) \/ row.label = "Q3"
ApiSportsFinishedMarker(game) ==
    \/ Includes(ToLowerCase(game.status.long), Finished)
    \/ Includes(ToLowerCase(game.status.long), AfterOverTime)
ApiSportsLiveMarker(game) ==
    \/ Includes(ToLowerCase(game.status.long), Quarter)
    \/ Includes(ToLowerCase(game.status.long), Halftime)
    \/ Includes(ToLowerCase(game.status.long), Break)

\* C9: whenever a provider record carries both a finished/complete marker and a
\* live-phase marker, the adapter resolves the status to completed.
C9_FinishedWinsOverLive ==
    /\ (stOp = "parseScheduleHTML" /\ GeniusFinishedMarker(stIn) /\ GeniusLiveMarker(stIn))
          => stOut.status = "completed"
    /\ (stOp = "transformGame" /\ ApiSportsFinishedMarker(stIn) /\ ApiSportsLiveMarker(stIn))
          => stOut.status = "completed"

\* a Genius Sports row whose class names the live token before the complete token,
\* with a quarter label, resolved to completed
C9_Witness ==
    /\ stOp = "parseScheduleHTML"
    /\ stIn.className = MatchWrap \o Space \o STATUS_LIVE \o Space \o STATUS_COMPLETE
    /\ stIn.label = "Q3"
    /\ stOut.status = "completed"

\* C10: for a Genius Sports schedule row with neither a complete token nor a live
\* token, status is inferred from the score text: completed if both score fields
\* consist only of digits (also beside a quarter label), otherwise scheduled.
C10_StatusFromScoreText ==
    (stOp = "parseScheduleHTML"
        /\ ~Includes(stIn.className, STATUS_COMPLETE)
        /\ ~Includes(stIn.className, STATUS_LIVE))
    => stOut.status = IF AllDigits(stIn.homeScoreText) /\ AllDigits(stIn.awayScoreText)
                      THEN "completed" ELSE "scheduled"

\* the texts of the two score fields of the record a status rule was applied to
HomeScoreTextOf(rec) ==
    IF stOp = "parseScheduleHTML" THEN rec.homeScoreText ELSE rec.homescore
AwayScoreTextOf(rec) ==
    IF stOp = "parseScheduleHTML" THEN rec.awayScoreText ELSE rec.awayscore

\* the adapters that read scores from text
ReadsScoreText ==
    stOp \in {"parseScheduleHTML", "transformParsedGame", "transformParsedGame_part008"}

\* C11: in every adapter, a score field whose text is not entirely decimal digits
\* (empty, a dash, ...) leaves homeScore / awayScore absent: never a number, never NaN.
C11_NonDigitScoreAbsent ==
    ReadsScoreText =>
        /\ ~AllDigits(HomeScoreTextOf(stIn)) => stOut.homeScore = Undef
        /\ ~AllDigits(AwayScoreTextOf(stIn)) => stOut.awayScore = Undef

\* C12: every Match an adapter emits with status scheduled has neither homeScore
\* nor awayScore set.
C12_ScheduledHasNoScores ==
    (stOp # "none" /\ stOut.status = "scheduled") =>
        (stOut.homeScore = Undef /\ stOut.awayScore = Undef)

----------------------------------------------------------------------------
(* Match details: fetchGeniusSportsMatchDetails, fetchEuroLeagueMatchDetails (both *)
(* revisions) and getMockMatchDetails                                              *)

\* the mutant finds no match, whatever the list holds
FindMatchNothing(matches, matchId) == 0

\* matches.find(m => m.id === matchId): the index of the first match, 0 if none
FindMatch(matches, matchId) ==
    IF \E i \in 1..Len(matches) : matches[i].id = matchId
    THEN CHOOSE i \in 1..Len(matches) :
            /\ matches[i].id = matchId
            /\ \A j \in 1..(i - 1) : matches[j].id # matchId
    ELSE 0

\* a MatchDetails value: { ...match, quarterScores, homeStats, awayStats, homePlayers,
\* awayPlayers, lastUpdated }.  quarterScores is "absent", "empty" ({}) or "present";
\* each statistics field is "absent" or "present"
Details(match, quarterScores, homeStats, awayStats, homePlayers, awayPlayers) ==
    [kind |-> "details", match |-> match, quarterScores |-> quarterScores,
     homeStats |-> homeStats, awayStats |-> awayStats,
     homePlayers |-> homePlayers, awayPlayers |-> awayPlayers]

\* { ...match, lastUpdated }
BasicDetails(match) == Details(match, "absent", "absent", "absent", "absent", "absent")

NullDetails == [kind |-> "null"]
RejectedDetails(err) == [kind |-> "error", err |-> err]

\* what fetchBoxScore resolves with: parsed statistics, or nulls and empty lists when
\* the request or the parse yields nothing
BoxScoreOutcomes ==
    {[homeStats |-> hs, awayStats |-> as, homePlayers |-> hp, awayPlayers |-> ap] :
        hs \in {"null", "present"}, as \in {"null", "present"},
        hp \in {"empty", "present"}, ap \in {"empty", "present"}}

\* what fetchQuarterScores resolves with: parsed quarters, or {} on failure
QuarterScoresOutcomes == {"present", "empty"}

\* what fetchGameDetails (part_008) resolves with: null on failure, else the parsed data
GameDetailsOutcomes ==
    {[isNull |-> TRUE, quarterScores |-> "empty", box |-> b] :
        b \in {[homeStats |-> "null", awayStats |-> "null",
                homePlayers |-> "empty", awayPlayers |-> "empty"]}}
    \cup {[isNull |-> FALSE, quarterScores |-> q, box |-> b] :
            q \in QuarterScoresOutcomes, b \in BoxScoreOutcomes}

\* stats || undefined, players.length > 0 ? players : undefined
OrAbsent(x) == IF x \in {"null", "empty"} THEN "absent" ELSE x

\* mutant: detailed statistics are fetched for every match, scheduled ones included
geniusFetchesStatsAlways(match) == TRUE

\* match.status === 'completed' || match.status === 'live'
geniusFetchesStats(match) == match.status \in {"completed", "live"}

\* match.status === 'completed' (part_008)
euroleagueFetchesStats(match) == match.status = "completed"

\* the return statement of fetchGeniusSportsMatchDetails after Promise.all
geniusDetails(match, boxScoreData, quarterScores) ==
    Details(match, quarterScores,
            OrAbsent(boxScoreData.homeStats), OrAbsent(boxScoreData.awayStats),
            OrAbsent(boxScoreData.homePlayers), OrAbsent(boxScoreData.awayPlayers))

\* the return statements of fetchEuroLeagueMatchDetails (part_008) after fetchGameDetails
euroleagueDetails(match, details) ==
    IF details.isNull
    THEN BasicDetails(match)
    ELSE Details(match, details.quarterScores,
                 OrAbsent(details.box.homeStats), OrAbsent(details.box.awayStats),
                 OrAbsent(details.box.homePlayers), OrAbsent(details.box.awayPlayers))

\* .match-wrap elements of the schedule a details call fetches
GeniusDetailRows ==
    {[extfix |-> x, className |-> MatchWrap \o Space \o c[1],
      homeScoreText |-> c[2], awayScoreText |-> c[3],
      label |-> "", dateTime |-> DateStr("LOCALT", Day1, 19), venue |-> ""] :
        x \in {"2702593", "2702594"},
        c \in {<<STATUS_SCHEDULED, <<>>, <<>>>>,
               <<STATUS_COMPLETE, <<"7", "8">>, <<"8", "1">>>>,
               <<STATUS_LIVE, <<"4", "0">>, <<"3", "8">>>>}}

\* sequences of at most two elements of S
UpToTwo(S) == {<<>>} \cup {<<a>> : a \in S} \cup {<<a, b>> : a \in S, b \in S}

\* sequences of at most one element of S
UpToOne(S) == {<<>>} \cup {<<a>> : a \in S}

\* fetchGeniusSportsMatches for a schedule document: parse, then sort by date
fetchGeniusSportsMatches(rows, zone, nowT) ==
    sortByDate(parseScheduleHTML(rows, zone, nowT), zone)

\* match lists fetchEuroLeagueMatches resolves with, for feeds of at most one game
EuroLeagueMatchLists(zone, nowT) ==
    {sortByDate(mergeMatches(
        [i \in 1..Len(c) |-> transformParsedGame(parseGameElement(c[i]), zone, nowT)],
        [i \in 1..Len(u) |-> transformV2Game(u[i], zone)]), zone) :
        c \in UpToOne(V1Elements),
        u \in UpToOne({g \in V2Games : ~transformV2GameThrows(g, zone)})}

\* match ids a caller asks for
DetailIds == {"2702593", "2702594", "E2025_170", "E2025_171", "e1", "e7", "unknown"}

InitDetails ==
    /\ mode = "details"
    /\ tz \in TimeZones
    /\ now \in Nows
    /\ IdleEL
    /\ IdleProvider
    /\ IdleStatus
    /\ IdleDetails
    /\ IdleFeed
    /\ IdleViews

\* a details function is called and awaits the provider's match list
StartDetails(fn, matchId) ==
    /\ mdCall' = [fn |-> fn, matchId |-> matchId]
    /\ mdPc' = "matches"
    /\ UNCHANGED <<mdMatches, mdResult, envVars, elVars, dpVars, stVars, fdVars, viewVars>>

fetchGeniusSportsMatchDetails(matchId) ==
    /\ mdPc = "idle"
    /\ StartDetails("fetchGeniusSportsMatchDetails", matchId)

fetchEuroLeagueMatchDetails(matchId) ==
    /\ mdPc = "idle"
    /\ StartDetails("fetchEuroLeagueMatchDetails", matchId)

fetchEuroLeagueMatchDetails_part008(matchId) ==
    /\ mdPc = "idle"
    /\ StartDetails("fetchEuroLeagueMatchDetails_part008", matchId)

\* the match list arrived: null if no match has the id; the basic details if no
\* statistics are fetched for the match; otherwise the statistics requests are awaited
MatchesArrived(matches, fetchesStats) ==
    LET i == FindMatch(matches, mdCall.matchId)
    IN /\ mdMatches' = matches
       /\ IF i = 0
          THEN mdResult' = NullDetails /\ mdPc' = "done"
          ELSE IF fetchesStats[i]
               THEN mdPc' = "stats" /\ UNCHANGED mdResult
               ELSE mdResult' = BasicDetails(matches[i]) /\ mdPc' = "done"
       /\ UNCHANGED <<mdCall, envVars, elVars, dpVars, stVars, fdVars, viewVars>>

\* fetchGeniusSportsMatches rejected: the details call rejects with the same error
GeniusMatchesFail ==
    /\ mdPc = "matches" /\ mdCall.fn = "fetchGeniusSportsMatchDetails"
    /\ \E e \in {PlainError("Genius Sports API error: 500"), RuntimeError("TypeError")} :
         mdResult' = RejectedDetails(e)
    /\ mdPc' = "done"
    /\ UNCHANGED <<mdCall, mdMatches, envVars, elVars, dpVars, stVars, fdVars, viewVars>>

GeniusMatchesArrive ==
    /\ mdPc = "matches" /\ mdCall.fn = "fetchGeniusSportsMatchDetails"
    /\ \E rows \in UpToTwo(GeniusDetailRows) :
         LET matches == fetchGeniusSportsMatches(rows, tz, now)
         IN MatchesArrived(matches, [i \in 1..Len(matches) |-> geniusFetchesStats(matches[i])])

\* Promise.all([fetchBoxScore, fetchQuarterScores]) settled; neither can reject
GeniusStatsArrive ==
    /\ mdPc = "stats" /\ mdCall.fn = "fetchGeniusSportsMatchDetails"
    /\ \E box \in BoxScoreOutcomes, qs \in QuarterScoresOutcomes :
         mdResult' = geniusDetails(mdMatches[FindMatch(mdMatches, mdCall.matchId)], box, qs)
    /\ mdPc' = "done"
    /\ UNCHANGED <<mdCall, mdMatches, envVars, elVars, dpVars, stVars, fdVars, viewVars>>

\* src/services/euroleagueApi.ts: the basic details of the match, never statistics
EuroLeagueMatchesArrive ==
    /\ mdPc = "matches" /\ mdCall.fn = "fetchEuroLeagueMatchDetails"
    /\ \E matches \in EuroLeagueMatchLists(tz, now) :
         MatchesArrived(matches, [i \in 1..Len(matches) |-> FALSE])

EuroLeagueMatchesArrive_part008 ==
    /\ mdPc = "matches" /\ mdCall.fn = "fetchEuroLeagueMatchDetails_part008"
    /\ \E matches \in EuroLeagueMatchLists(tz, now) :
         MatchesArrived(matches,
                        [i \in 1..Len(matches) |-> euroleagueFetchesStats(matches[i])])

\* fetchGameDetails settled (it catches its errors and resolves with null)
EuroLeagueGameDetailsArrive ==
    /\ mdPc = "stats" /\ mdCall.fn = "fetchEuroLeagueMatchDetails_part008"
    /\ \E details \in GameDetailsOutcomes :
         mdResult' = euroleagueDetails(mdMatches[FindMatch(mdMatches, mdCall.matchId)],
                                       details)
    /\ mdPc' = "done"
    /\ UNCHANGED <<mdCall, mdMatches, envVars, elVars, dpVars, stVars, fdVars, viewVars>>

\* getMockMatchDetails(matchId), synchronous
ApplyGetMockMatchDetails(matchId) ==
    /\ mdPc = "idle"
    /\ mdCall' = [fn |-> "getMockMatchDetails", matchId |-> matchId]
    /\ mdMatches' = allMockMatches
    /\ mdResult' = getMockMatchDetails(matchId)
    /\ mdPc' = "done"
    /\ UNCHANGED <<envVars, elVars, dpVars, stVars, fdVars, viewVars>>

NextDetails ==
    \/ \E matchId \in DetailIds : fetchGeniusSportsMatchDetails(matchId)
    \/ \E matchId \in DetailIds : fetchEuroLeagueMatchDetails(matchId)
    \/ \E matchId \in DetailIds : fetchEuroLeagueMatchDetails_part008(matchId)
    \/ \E matchId \in DetailIds : ApplyGetMockMatchDetails(matchId)
    \/ GeniusMatchesFail
    \/ GeniusMatchesArrive
    \/ GeniusStatsArrive
    \/ EuroLeagueMatchesArrive
    \/ EuroLeagueMatchesArrive_part008
    \/ EuroLeagueGameDetailsArrive

SpecDetails == InitDetails /\ [][NextDetails]_vars

----------------------------------------------------------------------------
(* Properties of the match details *)

\* the call returned a MatchDetails value
ReturnedDetails == mdPc = "done" /\ mdResult.kind = "details"

\* the value carries no quarter scores and no team or player statistics
NoStatistics(d) ==
    /\ d.quarterScores = "absent"
    /\ d.homeStats = "absent" /\ d.awayStats = "absent"
    /\ d.homePlayers = "absent" /\ d.awayPlayers = "absent"

\* C13: every MatchDetails value returned for a match whose status is scheduled has
\* no quarter scores and no home/away team or player statistics, for Genius Sports,
\* EuroLeague and the mock provider.
C13_ScheduledHasNoStatistics ==
    ReturnedDetails =>
        IF mdCall.fn = "getMockMatchDetails"
        THEN mdResult.details[1].status = "scheduled" => ~mdResult.details[1].hasStats
        ELSE mdResult.match.status = "scheduled" => NoStatistics(mdResult)

\* the Genius Sports schedule held a completed and a scheduled match, and the details
\* of the scheduled one were returned
C13_Witness ==
    /\ ReturnedDetails
    /\ mdCall.fn = "fetchGeniusSportsMatchDetails"
    /\ mdResult.match.status = "scheduled"
    /\ \E i \in 1..Len(mdMatches) : mdMatches[i].status = "completed"

----------------------------------------------------------------------------
(* Standings and the single-feed fetches:
   fetchEuroLeagueStandings (src/src/services/euroleagueApi.ts),
   fetchGeniusSportsStandings and fetchGeniusSportsMatches
   (src/src/services/geniusSportsApi.ts), fetchApiSportsStandings
   (src/src/services/apiSportsApi.ts), fetchStandings (src/src/services/api.ts) *)

\* most rows of one standings table
MaxRows == 2

\* the StandingsEntry fields the properties read; team is the provider's team id
StandingsEntry(team, position, won, lost, points) ==
    [team |-> team, position |-> position, won |-> won, lost |-> lost, points |-> points]

\* a - b of two JS numbers
Minus(a, b) == IF IsNum(a) /\ IsNum(b) THEN Num(a.v - b.v) ELSE NaN

\* the comparators: (a, b) => a.position - b.position, (a, b) => b.points - a.points
compareStandings(a, b, by) ==
    IF by = "position" THEN Minus(a.position, b.position) ELSE Minus(b.points, a.points)

\* stable insertion of x into s by the comparator; a NaN answer counts as +0
RECURSIVE InsertStanding(_, _, _)
InsertStanding(s, x, by) ==
    IF s = <<>> THEN <<x>>
    ELSE LET c == compareStandings(Last(s), x, by)
         IN IF IsNum(c) /\ c.v > 0
            THEN Append(InsertStanding(Front(s), x, by), Last(s))
            ELSE Append(s, x)

\* standings.sort(comparator)
RECURSIVE sortStandings(_, _)
sortStandings(s, by) ==
    IF s = <<>> THEN <<>>
    ELSE InsertStanding(sortStandings(Front(s), by), Last(s), by)

\* getElementNumber: parseInt(text, 10), and 0 for NaN
getElementNumber(text) == LET num == ParseInt(text) IN IF IsNum(num) THEN num ELSE Num(0)

\* parseStandingsXML of one <team> element, then transformParsedStanding
transformParsedStanding(teamEl) ==
    LET wins == getElementNumber(teamEl.wins)
        losses == getElementNumber(teamEl.losses)
    IN StandingsEntry(teamEl.code, getElementNumber(teamEl.ranking), wins, losses,
                      Num(wins.v * 2 + losses.v))

\* text || '0'
OrZeroText(text) == IF text = <<>> THEN <<"0">> ELSE text

\* one <tr> of parseStandingsHTML that has at least five cells
parseStandingsRow(row) ==
    StandingsEntry(row.code,
                   ParseInt(OrZeroText(row.position)),
                   ParseInt(OrZeroText(row.won)),
                   ParseInt(OrZeroText(row.lost)),
                   ParseInt(OrZeroText(row.standingPoints)))

\* rows.forEach of parseStandingsHTML: rows with fewer than five cells are skipped
RECURSIVE parseStandingsRows(_)
parseStandingsRows(rows) ==
    IF rows = <<>> THEN <<>>
    ELSE IF Head(rows).cells < 5 THEN parseStandingsRows(Tail(rows))
    ELSE <<parseStandingsRow(Head(rows))>> \o parseStandingsRows(Tail(rows))

parseStandingsHTML(rows) == sortStandings(parseStandingsRows(rows), "position")

\* transformStanding of src/src/services/apiSportsApi.ts
transformStanding(standing) ==
    StandingsEntry(standing.code, standing.position, standing.win, standing.lose,
                   IF standing.groupPoints.k \in {"null", "undef"}
                   THEN Num(standing.win.v * 2)
                   ELSE standing.groupPoints)

\* a || b || '0' of two optional texts (absent and empty are both falsy)
FirstTruthyText(a, b) == IF a # <<>> THEN a ELSE OrZeroText(b)

\* transformTableEntry(entry, index) of src/src/services/api.ts
transformTableEntry(entry, index) ==
    StandingsEntry(entry.code, Num(index + 1),
                   ParseInt(FirstTruthyText(entry.win, entry.intWin)),
                   ParseInt(FirstTruthyText(entry.loss, entry.intLoss)),
                   ParseInt(FirstTruthyText(entry.total, entry.intPoints)))

\* what a single-feed fetch settles with: a list, the mock table, or an error
ListResult(list) == [kind |-> "list", list |-> list, err |-> NoError]
MockTableResult(list) == [kind |-> "mock", list |-> list, err |-> NoError]
ErrorResult(err) == [kind |-> "error", list |-> <<>>, err |-> err]

\* the mutant treats a document without teams as a failure
euroLeagueStandingsOfRejectingEmpty(resp) ==
    LET r == fetchXMLFromEuroLeague(resp)
    IN IF r.err.name # "none" THEN ErrorResult(r.err)
       ELSE IF Len(r.doc) = 0 THEN ErrorResult(APIError("No standings", Undef))
       ELSE ListResult(sortStandings(
                [i \in 1..Len(r.doc) |-> transformParsedStanding(r.doc[i])], "position"))

\* fetchEuroLeagueStandings, from the HTTP outcome of GET /standings
euroLeagueStandingsOf(resp) ==
    LET r == fetchXMLFromEuroLeague(resp)
    IN IF r.err.name # "none" THEN ErrorResult(r.err)
       ELSE IF Len(r.doc) = 0 THEN ListResult(<<>>)
       ELSE ListResult(sortStandings(
                [i \in 1..Len(r.doc) |-> transformParsedStanding(r.doc[i])], "position"))

\* fetchFromGeniusSports: outcome [err, html] for one HTTP outcome
fetchFromGeniusSports(resp) ==
    IF resp.kind = "neterr"
    THEN [err |-> RuntimeError("TypeError"), html |-> <<>>]
    ELSE IF ~ResponseOk(resp)
    THEN [err |-> PlainError("Genius Sports API error: " \o ToString(resp.status)),
          html |-> <<>>]
    ELSE IF resp.body = "malformed"
    THEN [err |-> RuntimeError("SyntaxError"), html |-> <<>>]
    ELSE [err |-> NoError, html |-> resp.games]

\* fetchGeniusSportsStandings, from the HTTP outcome of GET /standings
geniusStandingsOf(resp) ==
    LET r == fetchFromGeniusSports(resp)
    IN IF r.err.name # "none" THEN ErrorResult(r.err)
       ELSE ListResult(parseStandingsHTML(r.html))

\* fetchGeniusSportsMatches, from the HTTP outcome of GET /schedule
geniusMatchesOf(resp, zone, nowT) ==
    LET r == fetchFromGeniusSports(resp)
    IN IF r.err.name # "none" THEN ErrorResult(r.err)
       ELSE ListResult(fetchGeniusSportsMatches(r.html, zone, nowT))

\* fetchFromApiSports: outcome [err, response] for one HTTP outcome
fetchFromApiSports(resp) ==
    IF resp.kind = "neterr"
    THEN [err |-> APIError("API-Sports network error", Undef), response |-> <<>>]
    ELSE IF ~ResponseOk(resp)
    THEN [err |-> APIError("API-Sports request failed", Num(resp.status)), response |-> <<>>]
    ELSE IF resp.body = "empty"
    THEN [err |-> NoError, response |-> <<>>]
    ELSE IF resp.body = "malformed"
    THEN [err |-> APIError("Invalid JSON from API-Sports", Undef), response |-> <<>>]
    ELSE IF resp.body = "errors"
    THEN [err |-> APIError("API-Sports error", Undef), response |-> <<>>]
    ELSE [err |-> NoError, response |-> resp.games]

\* fetchApiSportsStandings, from the HTTP outcome of GET standings
apiSportsStandingsOf(resp) ==
    LET r == fetchFromApiSports(resp)
    IN IF r.err.name # "none" THEN ErrorResult(r.err)
       ELSE IF Len(r.response) = 0 THEN ListResult(<<>>)
       ELSE ListResult(sortStandings(
                [i \in 1..Len(r.response) |-> transformStanding(r.response[i])], "position"))

\* fetchFromAPI of src/src/services/api.ts: the parsed body, or null for a transport
\* failure, a non-2xx answer or a body that is not JSON
fetchFromAPI(resp) ==
    IF resp.kind = "neterr" \/ ~ResponseOk(resp) \/ resp.body = "malformed"
    THEN [isNull |-> TRUE, hasTable |-> FALSE, table |-> <<>>]
    ELSE [isNull |-> FALSE, hasTable |-> resp.body = "table", table |-> resp.games]

\* fetchStandings of src/src/services/api.ts, from the HTTP outcome of lookuptable.php
sportsDBStandingsOf(resp, leagueId) ==
    LET data == fetchFromAPI(resp)
    IN IF ~data.isNull /\ data.hasTable
       THEN ListResult(sortStandings(
                [i \in 1..Len(data.table) |-> transformTableEntry(data.table[i], i - 1)],
                "pointsDesc"))
       ELSE MockTableResult(getMockStandingsForLeague(leagueId))

----------------------------------------------------------------------------
(* Single-feed fetches as processes: the call issues its request, the HTTP outcome
   arrives, the call settles *)

\* non-2xx statuses a provider answers with
FailureStatuses == {404, 500}

\* a table's rows, each with its team's id
WithCodes(rows) == [i \in 1..Len(rows) |-> rows[i] @@ [code |-> i]]

\* <team> elements of the EuroLeague standings XML
TeamElements ==
    {[ranking |-> r, wins |-> w, losses |-> l] :
        r \in {<<"1">>, <<"2">>, <<>>}, w \in {<<"1", "5">>, <<>>}, l \in {<<"3">>}}

\* <tr> rows of the Genius Sports standings table
GeniusStandingsRows ==
    {[cells |-> c, position |-> pos, won |-> <<"1", "5">>, lost |-> <<"3">>,
      standingPoints |-> pts] :
        c \in {4, 9}, pos \in {<<"1">>, <<"2">>, <<"-">>}, pts \in {<<"3", "0">>, <<>>}}

\* elements of the API-Sports standings response
ApiSportsStandings ==
    {[position |-> Num(pos), groupPoints |-> pts, win |-> Num(15), lose |-> Num(3)] :
        pos \in {1, 2}, pts \in {Null, Num(30)}}

\* entries of TheSportsDB's table
SportsDBTableEntries ==
    {[win |-> <<"1", "5">>, intWin |-> <<>>, loss |-> <<"3">>, intLoss |-> <<>>,
      total |-> t, intPoints |-> ip] :
        t \in {<<"1", "0">>, <<"1", "2">>, <<>>}, ip \in {<<>>, <<"8">>}}

\* HTTP outcomes of one request: transport failure, a non-2xx status, a 2xx answer
\* with one of the bodies no table can be read from, or a table
FeedResponses(otherBodies, tableBody, tables) ==
    {V1Resp("neterr", 0, "", <<>>)}
    \cup {V1Resp("http", st, "", <<>>) : st \in FailureStatuses}
    \cup {V1Resp("http", 200, b, <<>>) : b \in otherBodies}
    \cup {V1Resp("http", 200, tableBody, t) : t \in tables}

Tables(rows) == {WithCodes(t) : t \in SeqsUpTo(rows, MaxRows)}

InitFeed ==
    /\ mode = "feed"
    /\ tz \in TimeZones
    /\ now \in Nows
    /\ IdleEL
    /\ IdleProvider
    /\ IdleStatus
    /\ IdleDetails
    /\ IdleFeed
    /\ IdleViews

\* the mutant issues the request a second time
StartFeedRepeated(fn, leagueId, request) ==
    /\ fdCall' = [fn |-> fn, leagueId |-> leagueId]
    /\ fdRequests' = fdRequests \o <<request, request>>
    /\ fdPc' = "waiting"
    /\ UNCHANGED <<fdResponse, fdResult, envVars, elVars, dpVars, stVars, mdVars, viewVars>>

\* the call issues its one request and waits for the response
StartFeed(fn, leagueId, request) ==
    /\ fdCall' = [fn |-> fn, leagueId |-> leagueId]
    /\ fdRequests' = Append(fdRequests, request)
    /\ fdPc' = "waiting"
    /\ UNCHANGED <<fdResponse, fdResult, envVars, elVars, dpVars, stVars, mdVars, viewVars>>

\* the response arrives and the call settles
SettleFeed(fn, resp, outcome) ==
    /\ fdCall.fn = fn
    /\ fdResponse' = resp
    /\ fdResult' = outcome
    /\ fdPc' = "done"
    /\ UNCHANGED <<fdCall, fdRequests, envVars, elVars, dpVars, stVars, mdVars, viewVars>>

fetchEuroLeagueStandings ==
    /\ fdPc = "idle"
    /\ \E leagueId \in {"euroleague", "eurocup"} :
         StartFeed("fetchEuroLeagueStandings", leagueId, "V1 /standings")

EuroLeagueStandingsSettle ==
    /\ fdPc = "waiting"
    /\ \E resp \in FeedResponses({"empty", "malformed"}, "xml", Tables(TeamElements)) :
         SettleFeed("fetchEuroLeagueStandings", resp, euroLeagueStandingsOf(resp))

fetchGeniusSportsStandings ==
    /\ fdPc = "idle"
    /\ StartFeed("fetchGeniusSportsStandings", "super-league", "Genius /standings")

GeniusStandingsSettle ==
    /\ fdPc = "waiting"
    /\ \E resp \in FeedResponses({"malformed"}, "json", Tables(GeniusStandingsRows)) :
         SettleFeed("fetchGeniusSportsStandings", resp, geniusStandingsOf(resp))

fetchGeniusSportsMatchesCall ==
    /\ fdPc = "idle"
    /\ StartFeed("fetchGeniusSportsMatches", "super-league",
                 "Genius /schedule?roundNumber=-1")

GeniusMatchesSettle ==
    /\ fdPc = "waiting"
    /\ \E resp \in FeedResponses({"malformed"}, "json", UpToTwo(GeniusDetailRows)) :
         SettleFeed("fetchGeniusSportsMatches", resp, geniusMatchesOf(resp, tz, now))

\* fetchApiSportsStandings with the API key configured
fetchApiSportsStandings ==
    /\ fdPc = "idle"
    /\ StartFeed("fetchApiSportsStandings", "super-league", "API-Sports standings")

\* fetchApiSportsStandings without an API key: fetchFromApiSports throws before any request
fetchApiSportsStandingsNoKey ==
    /\ fdPc = "idle"
    /\ fdCall' = [fn |-> "fetchApiSportsStandings", leagueId |-> "super-league"]
    /\ fdResult' = ErrorResult(APIError("API-Sports API key not configured", Undef))
    /\ fdPc' = "done"
    /\ UNCHANGED <<fdRequests, fdResponse, envVars, elVars, dpVars, stVars, mdVars, viewVars>>

ApiSportsStandingsSettle ==
    /\ fdPc = "waiting"
    /\ \E resp \in FeedResponses({"empty", "malformed", "errors"}, "json",
                                 Tables(ApiSportsStandings)) :
         SettleFeed("fetchApiSportsStandings", resp, apiSportsStandingsOf(resp))

\* fetchStandings of src/src/services/api.ts
fetchStandings_SportsDB ==
    /\ fdPc = "idle"
    /\ \E leagueId \in {"super-league", "euroleague"} :
         StartFeed("fetchStandings", leagueId, "TheSportsDB lookuptable.php")

SportsDBStandingsSettle ==
    /\ fdPc = "waiting"
    /\ \E resp \in FeedResponses({"malformed", "notable"}, "table",
                                 Tables(SportsDBTableEntries)) :
         SettleFeed("fetchStandings", resp, sportsDBStandingsOf(resp, fdCall.leagueId))

NextFeed ==
    \/ fetchEuroLeagueStandings
    \/ EuroLeagueStandingsSettle
    \/ fetchGeniusSportsStandings
    \/ GeniusStandingsSettle
    \/ fetchGeniusSportsMatchesCall
    \/ GeniusMatchesSettle
    \/ fetchApiSportsStandings
    \/ fetchApiSportsStandingsNoKey
    \/ ApiSportsStandingsSettle
    \/ fetchStandings_SportsDB
    \/ SportsDBStandingsSettle

SpecFeed == InitFeed /\ [][NextFeed]_vars

----------------------------------------------------------------------------
(* Properties of the standings and of the single-feed fetches *)

StandingsFetches ==
    {"fetchEuroLeagueStandings", "fetchGeniusSportsStandings", "fetchApiSportsStandings",
     "fetchStandings"}

\* a standings fetch returned a list it built from the provider's table
ReturnedStandings ==
    fdPc = "done" /\ fdCall.fn \in StandingsFetches /\ fdResult.kind = "list"

\* a > b of two JS numbers
Greater(a, b) == IsNum(a) /\ IsNum(b) /\ a.v > b.v

\* C14: every standings list returned by a standings fetch is ordered by ascending
\* position: of two consecutive entries, the earlier one's position is not greater
\* than the later one's.
C14_StandingsAscendingByPosition ==
    ReturnedStandings =>
        \A i \in 1..(Len(fdResult.list) - 1) :
            ~Greater(fdResult.list[i].position, fdResult.list[i + 1].position)


\* the standings-points value the provider's row reports, undefined when it reports none
ReportedPoints(fn, row) ==
    CASE fn = "fetchEuroLeagueStandings" -> Undef
      [] fn = "fetchGeniusSportsStandings" ->
            IF AllDigits(row.standingPoints) THEN ParseInt(row.standingPoints) ELSE Undef
      [] fn = "fetchApiSportsStandings" -> NullishToUndef(row.groupPoints)
      [] fn = "fetchStandings" ->
            LET text == IF row.total # <<>> THEN row.total ELSE row.intPoints
            IN IF AllDigits(text) THEN ParseInt(text) ELSE Undef

\* 2*won + 1*lost of an entry
DerivedPoints(e) ==
    IF IsNum(e.won) /\ IsNum(e.lost) THEN Num(2 * e.won.v + e.lost.v) ELSE NaN

\* C15: for every standings entry, points equals the provider-reported
\* standings-points value when the provider supplies one, and otherwise equals
\* 2*won + 1*lost.
C15_PointsReportedOrDerived ==
    ReturnedStandings =>
        \A i \in 1..Len(fdResult.list) :
            LET e == fdResult.list[i]
                reported == ReportedPoints(fdCall.fn, fdResponse.games[e.team])
            IN e.points = (IF IsNum(reported) THEN reported ELSE DerivedPoints(e))


\* C16: fetchEuroLeagueMatches issues both HTTP requests before it waits for either
\* response: as long as a response is outstanding, the V1 and the V2 request have
\* both been issued already, whichever response arrives first.
C16_BothRequestsBeforeEitherResponse ==
    (pc = "fetching" /\ (v1st = "pending" \/ v2st = "pending")) =>
        /\ \E i \in 1..Len(requests) : requests[i] = "V1 /results"
        /\ \E i \in 1..Len(requests) : requests[i] = "V2 /games"

\* the V2 response arrived while the V1 request, issued before it, was still unanswered
C16_Witness ==
    /\ pc = "fetching"
    /\ v2st = "fulfilled" /\ v2resp # NoV2Resp
    /\ v1st = "pending" /\ v1resp = NoV1Resp
    /\ requests = <<"V1 /results", "V2 /games">>


\* one call of any one of the fetch functions: the two-feed fetch, a single-feed fetch,
\* or a call of the data provider
InitCalls ==
    /\ mode = "calls"
    /\ tz \in TimeZones
    /\ now \in Nows
    /\ IdleEL
    /\ IdleStatus
    /\ IdleDetails
    /\ IdleFeed
    /\ IdleViews
    /\ dpFlag \in BOOLEAN
    /\ dpPc = "idle"
    /\ dpCall = [op |-> "none", leagueId |-> "", matchId |-> ""]
    /\ dpAdapter = [settled |-> "none", err |-> NoError]
    /\ dpResult = NoResult
    /\ dpThrown = NoError
    /\ dpProbes = <<>>

NextCalls ==
    \/ fdPc = "idle" /\ dpPc = "idle" /\ Next
    \/ pc = "idle" /\ dpPc = "idle" /\ NextFeed
    \/ pc = "idle" /\ fdPc = "idle" /\ NextProvider

SpecCalls == InitCalls /\ [][NextCalls]_vars

\* C17: a feed fetch performs one HTTP request per call and never retries: a call of
\* fetchEuroLeagueMatches has issued exactly two requests (one per feed) when it
\* settles, a call of fetchEuroLeagueStandings or fetchGeniusSportsMatches exactly
\* one, whether the requests succeeded or failed.
C17_OneRequestPerFeed ==
    /\ pc = "done" =>
           /\ Len(requests) = 2
           /\ \E i \in 1..2 : requests[i] = "V1 /results"
           /\ \E i \in 1..2 : requests[i] = "V2 /games"
    /\ (fdPc = "done" /\ fdCall.fn \in {"fetchEuroLeagueStandings", "fetchGeniusSportsMatches"})
           => Len(fdRequests) = 1

\* a call of fetchGeniusSportsMatches failed on a non-2xx answer after its one request
C17_Witness ==
    /\ fdPc = "done"
    /\ fdCall.fn = "fetchGeniusSportsMatches"
    /\ fdResult.kind = "error"
    /\ fdResponse.kind = "http" /\ ~ResponseOk(fdResponse)
    /\ Len(fdRequests) = 1


\* the provider answered the call's request with a non-2xx HTTP status
AnsweredNon2xx ==
    fdPc = "done" /\ fdResponse.kind = "http" /\ ~ResponseOk(fdResponse)

\* C18: when the provider answers a standings or schedule request with a non-2xx HTTP
\* status, the fetch raises an error whose status-code field holds that status, in the
\* EuroLeague XML adapter and in the Genius Sports adapter.
C18_ErrorCarriesStatusCode ==
    (AnsweredNon2xx /\ fdCall.fn \in {"fetchEuroLeagueStandings",
                                     "fetchGeniusSportsStandings",
                                     "fetchGeniusSportsMatches"}) =>
        /\ fdResult.kind = "error"
        /\ fdResult.err.statusCode = Num(fdResponse.status)


\* the single-feed call's request was answered 2xx with a well-formed body that holds
\* no row at all
AnsweredWithoutRows ==
    /\ fdPc = "done"
    /\ fdResponse.kind = "http" /\ ResponseOk(fdResponse)
    /\ fdResponse.body \in {"xml", "json", "table"}
    /\ fdResponse.games = <<>>

\* both feeds of fetchEuroLeagueMatches were answered with well-formed, empty lists
BothFeedsWithoutGames ==
    /\ pc = "done"
    /\ v1resp = V1Resp("http", 200, "xml", <<>>)
    /\ v2resp = V2Resp("http", 200, "json", "success", <<>>)

ReturnedDetailsOrNull == mdPc = "done" /\ mdResult.kind \in {"details", "null"}

\* some match of the provider's current list has the requested id
ListHasRequestedId == \E i \in 1..Len(mdMatches) : mdMatches[i].id = mdCall.matchId

\* C20: a provider's match-details fetch returns null exactly when no match of that
\* provider's current match list has the requested id; when one has, the details
\* carry a listed match with that id, its id, teams, scores, date and status unchanged.
C20_NullIffNoSuchMatch ==
    ReturnedDetailsOrNull =>
        /\ mdResult.kind = "null" <=> ~ListHasRequestedId
        /\ mdResult.kind = "details" =>
               \E i \in 1..Len(mdMatches) :
                   /\ mdMatches[i].id = mdCall.matchId
                   /\ IF mdCall.fn = "getMockMatchDetails"
                      THEN /\ mdResult.details[1].id = mdMatches[i].id
                           /\ mdResult.details[1].league = mdMatches[i].league
                           /\ mdResult.details[1].status = mdMatches[i].status
                      ELSE mdResult.match = mdMatches[i]

\* the list held two matches, the second one had the requested id and a score, and
\* its details were returned
C20_Witness ==
    /\ ReturnedDetailsOrNull
    /\ mdCall.fn = "fetchGeniusSportsMatchDetails"
    /\ mdResult.kind = "details"
    /\ Len(mdMatches) = 2
    /\ mdMatches[1].id # mdCall.matchId
    /\ mdResult.match = mdMatches[2]
    /\ IsNum(mdResult.match.homeScore)

----------------------------------------------------------------------------
(* Parsing the same provider record a second time, later *)

\* what the function named op makes of the record at the instant nowT
ParseAt(op, record, zone, nowT) ==
    CASE op = "transformParsedGame" ->
            transformParsedGame(parseGameElement(record), zone, nowT)
      [] op = "transformParsedGame_part008" ->
            transformParsedGame_part008(parseGameElement(record), zone, nowT)
      [] op = "parseScheduleHTML" -> parseScheduleHTML(<<record>>, zone, nowT)[1]
      [] op = "transformGame" -> transformGame(record, zone)
      [] op = "transformV2Game" -> transformV2Game(record, zone)

InitReparse ==
    /\ mode = "reparse"
    /\ tz \in TimeZones
    /\ now \in StatusNows
    /\ IdleEL
    /\ IdleProvider
    /\ IdleDetails
    /\ IdleFeed
    /\ IdleViews
    /\ IdleStatus

\* the clock moves on and the same record is parsed again
ParseAgainLater ==
    /\ stOp # "none"
    /\ stAgain.status = "none"
    /\ \E later \in StatusNows :
         /\ later > now
         /\ now' = later
         /\ stAgain' = ParseAt(stOp, stIn, tz, later)
    /\ UNCHANGED <<mode, tz, stOp, stIn, stOut, elVars, dpVars, mdVars, fdVars, viewVars>>

NextReparse ==
    \/ NextStatus
    \/ ParseAgainLater

SpecReparse == InitReparse /\ [][NextReparse]_vars

\* C21: parsing the same raw provider payload twice, at any two times, yields equal
\* Match values: same id, date, time, scores and status.
C21_ReparseGivesEqualMatch ==
    stAgain.status # "none" => stAgain = stOut


\* the date text of the provider record the function was applied to
SourceDateOf(op, record) ==
    IF op = "parseScheduleHTML" THEN record.dateTime ELSE record.date

\* the source timestamp is a local midnight (a date without a time of day is one)
SourceAtLocalMidnight ==
    /\ stOp # "none"
    /\ ~NewDate(SourceDateOf(stOp, stIn), tz).nan
    /\ LocalHour(NewDate(SourceDateOf(stOp, stIn), tz), tz) = 0

\* C22: Match.date is the local calendar date of the source timestamp: for every
\* local time-zone offset a source timestamp at local midnight, or a date without a
\* time of day, normalizes to that same local calendar date.
C22_LocalMidnightKeepsDate ==
    SourceAtLocalMidnight =>
        stOut.date = ToLocalDate(NewDate(SourceDateOf(stOp, stIn), tz), tz)

----------------------------------------------------------------------------
(* Short names: getShortName of src/src/services/euroleagueApi.ts and of
   src/src/services/geniusSportsApi.ts *)

\* name.split(' '): the pieces between single spaces
RECURSIVE SplitAcc(_, _, _)
SplitAcc(text, piece, pieces) ==
    IF text = <<>> THEN Append(pieces, piece)
    ELSE IF Head(text) = " " THEN SplitAcc(Tail(text), <<>>, Append(pieces, piece))
    ELSE SplitAcc(Tail(text), Append(piece, Head(text)), pieces)

Split(text) == SplitAcc(text, <<>>, <<>>)

\* entries of the EuroLeague table of short names
euroleagueShortNames ==
    {[name |-> <<"R", "e", "a", "l", " ", "M", "a", "d", "r", "i", "d">>, shortName |-> <<"R", "e", "a", "l", " ", "M", "a", "d", "r", "i", "d">>],
     [name |-> <<"A", "S", " ", "M", "o", "n", "a", "c", "o">>, shortName |-> <<"M", "o", "n", "a", "c", "o">>],
     [name |-> <<"P", "a", "r", "i", "s", " ", "B", "a", "s", "k", "e", "t", "b", "a", "l", "l">>, shortName |-> <<"P", "a", "r", "i", "s">>]}

\* entries of the Genius Sports table of short names
geniusShortNames ==
    {[name |-> <<"L", "o", "n", "d", "o", "n", " ", "L", "i", "o", "n", "s">>, shortName |-> <<"L", "i", "o", "n", "s">>],
     [name |-> <<"B", ".", " ", "B", "r", "a", "u", "n", " ", "S", "h", "e", "f", "f", "i", "e", "l", "d", " ", "S", "h", "a", "r", "k", "s">>, shortName |-> <<"S", "h", "a", "r", "k", "s">>]}

\* shortNames[name], the empty text when the table has no such key
Lookup(table, name) ==
    IF \E e \in table : e.name = name
    THEN (CHOOSE e \in table : e.name = name).shortName
    ELSE <<>>

\* getShortName of the EuroLeague adapter
getShortName_euroleague(name) ==
    LET words == Split(name)
    IN IF Lookup(euroleagueShortNames, name) # <<>>
       THEN Lookup(euroleagueShortNames, name)
       ELSE IF Len(words) = 1 THEN name
       ELSE IF Len(words[1]) <= 3 THEN words[1] \o <<" ">> \o words[2]
       ELSE words[1]

\* getShortName of the Genius Sports adapter:
\* shortNames[name] || name.split(' ').pop() || name
getShortName_genius(name) ==
    IF Lookup(geniusShortNames, name) # <<>> THEN Lookup(geniusShortNames, name)
    ELSE IF Last(Split(name)) # <<>> THEN Last(Split(name))
    ELSE name

\* most words of a team name
MaxWords == 3

\* words team names are made of
NameWords == {<<"A", "S">>, <<"R", "e", "a", "l">>, <<"M", "a", "d", "r", "i", "d">>, <<"L", "o", "n", "d", "o", "n">>, <<"L", "i", "o", "n", "s">>, <<"B", "a", "s", "k", "e", "t", "b", "a", "l", "l">>}

RECURSIVE JoinWords(_)
JoinWords(words) ==
    IF Len(words) = 1 THEN words[1]
    ELSE words[1] \o <<" ">> \o JoinWords(Tail(words))

\* team names of one to MaxWords words
TeamNames == {JoinWords(w) : w \in SeqsUpTo(NameWords, MaxWords) \ {<<>>}}

InitNames ==
    /\ mode = "names"
    /\ tz \in TimeZones
    /\ now \in Nows
    /\ IdleEL
    /\ IdleProvider
    /\ IdleDetails
    /\ IdleFeed
    /\ IdleViews
    /\ IdleStatus

ApplyGetShortName_euroleague ==
    /\ stOp = "none"
    /\ \E name \in TeamNames :
         /\ stIn' = [source |-> "euroleague", name |-> name]
         /\ stOut' = [status |-> "none", shortName |-> getShortName_euroleague(name)]
    /\ stOp' = "getShortName_euroleague"
    /\ UNCHANGED <<stAgain, envVars, elVars, dpVars, mdVars, fdVars, viewVars>>

ApplyGetShortName_genius ==
    /\ stOp = "none"
    /\ \E name \in TeamNames :
         /\ stIn' = [source |-> "geniussports", name |-> name]
         /\ stOut' = [status |-> "none", shortName |-> getShortName_genius(name)]
    /\ stOp' = "getShortName_genius"
    /\ UNCHANGED <<stAgain, envVars, elVars, dpVars, mdVars, fdVars, viewVars>>

NextNames ==
    \/ ApplyGetShortName_euroleague
    \/ ApplyGetShortName_genius

SpecNames == InitNames /\ [][NextNames]_vars

\* the name is a key of the adapter's table
InShortNameTable ==
    \/ stOp = "getShortName_euroleague" /\ Lookup(euroleagueShortNames, stIn.name) # <<>>
    \/ stOp = "getShortName_genius" /\ Lookup(geniusShortNames, stIn.name) # <<>>

\* the last token of the name, or the first two tokens joined when the first one has
\* three characters or fewer
FallbackShortName(name) ==
    LET words == Split(name)
    IN IF Len(words) >= 2 /\ Len(words[1]) <= 3
       THEN words[1] \o <<" ">> \o words[2]
       ELSE Last(words)

\* C23: for a team name that is not in the table of short names, the short name is
\* the last whitespace-delimited token of the name, or the first two tokens joined
\* when the first token has three characters or fewer, in the EuroLeague and in the
\* Genius Sports adapter.
C23_ShortNameFallback ==
    (stOp \in {"getShortName_euroleague", "getShortName_genius"} /\ ~InShortNameTable) =>
        stOut.shortName = FallbackShortName(stIn.name)

\* ---------------------------------------------------------------------------
\* Completion order of the two feed fetches
\* ---------------------------------------------------------------------------

\* the list fetchEuroLeagueMatches builds from the two responses when the
\* V1 response is the first to arrive
ListWhenV1First(v1, v2) ==
    sortByDate(mergeMatches(fetchCompletedMatches(v1, tz, now).value,
                            fetchUpcomingMatches(v2, tz).value), tz)

\* C24: the list fetchEuroLeagueMatches returns is the same whichever of the two
\* feed responses arrives first: when the V2 response arrived before the V1
\* response the returned list, entry for entry and in the same order, is the one
\* the same two responses give when V1 arrives first.
C24_CompletionOrderIrrelevant ==
    (Returned /\ settled = <<"V2", "V1">>) => result = ListWhenV1First(v1resp, v2resp)

\* the V2 response arrived first, and the two feeds share an id whose entries
\* differ, and the list has two entries to order
C24_Witness ==
    /\ Returned /\ settled = <<"V2", "V1">>
    /\ Len(result) >= 2
    /\ \E id \in IdsOf(completedMatches) \cap IdsOf(upcomingMatches) :
         \E j \in 1..Len(upcomingMatches) :
            /\ upcomingMatches[j].id = id
            /\ upcomingMatches[j] # LastWithId(completedMatches, id)

\* ---------------------------------------------------------------------------
\* Web home page (HomePage component): league selection and data fetches
\* ---------------------------------------------------------------------------

\* fetches of one page that may be in flight together
MaxInFlight == 2

\* the leagues the selector offers
SelectorLeagues == {"super-league", "euroleague"}

\* what fetchAllData resolves with for a league: that league's matches and standings
DataOf(leagueId) == [matches |-> leagueId, standings |-> leagueId]

\* the state [] of matches and of standings
NoData == "[]"

\* the state null of error
NoMessage == "null"

\* getErrorMessage(error) under the prefix the page puts before it
UnableToLoad == "Unable to load data: " \o "Network error"

\* fetchData of the effect: setLoading(true), setError(null), then the request
fetchData(page, leagueId) ==
    [page EXCEPT !.loading = TRUE, !.error = NoMessage,
                 !.inFlight = Append(@, [leagueId |-> leagueId, from |-> "fetchData"])]

\* the effect on [selectedLeague]: fetchData() and a new 5-minute interval
RunEffect(page, league) ==
    [fetchData(page, league) EXCEPT !.interval = league]

RemoveAt(seq, i) == SubSeq(seq, 1, i - 1) \o SubSeq(seq, i + 1, Len(seq))

InitHomePage ==
    /\ mode = "homepage"
    /\ tz \in TimeZones /\ now \in Nows
    /\ IdleEL /\ IdleProvider /\ IdleStatus /\ IdleDetails /\ IdleFeed
    /\ matchDetail = NoView /\ detailViewModel = NoView /\ homeViewModel = NoView
    /\ homePage = NoView

\* first render: the league of the URL (or the default), and the effect runs
MountHomePage ==
    /\ mode = "homepage" /\ ~homePage.mounted
    /\ \E league \in SelectorLeagues :
         homePage' = RunEffect([mounted |-> TRUE, selectedLeague |-> league,
                                matches |-> NoData, standings |-> NoData,
                                loading |-> TRUE, error |-> NoMessage,
                                inFlight |-> <<>>, interval |-> "none"], league)
    /\ UNCHANGED <<matchDetail, detailViewModel, homeViewModel,
                   envVars, elVars, dpVars, stVars, mdVars, fdVars>>

\* handleLeagueChange: the URL parameter changes, selectedLeague with it, and the
\* effect's cleanup (clearInterval) and the effect run again
handleLeagueChange ==
    /\ mode = "homepage" /\ homePage.mounted
    /\ Len(homePage.inFlight) < MaxInFlight
    /\ \E league \in SelectorLeagues \ {homePage.selectedLeague} :
         homePage' = RunEffect([homePage EXCEPT !.selectedLeague = league], league)
    /\ UNCHANGED <<matchDetail, detailViewModel, homeViewModel,
                   envVars, elVars, dpVars, stVars, mdVars, fdVars>>

\* the 5-minute interval fires: fetchData of the effect that set it
AutoRefreshTick ==
    /\ mode = "homepage" /\ homePage.mounted /\ homePage.interval # "none"
    /\ Len(homePage.inFlight) < MaxInFlight
    /\ homePage' = fetchData(homePage, homePage.interval)
    /\ UNCHANGED <<matchDetail, detailViewModel, homeViewModel,
                   envVars, elVars, dpVars, stVars, mdVars, fdVars>>

\* handleRetry (the Try Again button, shown while error is set)
handleRetry ==
    /\ mode = "homepage" /\ homePage.mounted /\ homePage.error # NoMessage
    /\ Len(homePage.inFlight) < MaxInFlight
    /\ homePage' = [homePage EXCEPT
                      !.error = NoMessage, !.loading = TRUE,
                      !.inFlight = Append(@, [leagueId |-> homePage.selectedLeague,
                                              from |-> "handleRetry"])]
    /\ UNCHANGED <<matchDetail, detailViewModel, homeViewModel,
                   envVars, elVars, dpVars, stVars, mdVars, fdVars>>

\* a fetchAllData promise resolves: setMatches, setStandings, setLoading(false)
AllDataResolves ==
    /\ mode = "homepage" /\ homePage.mounted
    /\ \E i \in 1..Len(homePage.inFlight) :
         LET data == DataOf(homePage.inFlight[i].leagueId)
         IN homePage' = [homePage EXCEPT
                           !.matches = data.matches, !.standings = data.standings,
                           !.loading = FALSE, !.inFlight = RemoveAt(@, i)]
    /\ UNCHANGED <<matchDetail, detailViewModel, homeViewModel,
                   envVars, elVars, dpVars, stVars, mdVars, fdVars>>

\* a fetchAllData promise rejects: setError; fetchData also empties both lists
AllDataRejects ==
    /\ mode = "homepage" /\ homePage.mounted
    /\ \E i \in 1..Len(homePage.inFlight) :
         LET kept == homePage.inFlight[i].from = "handleRetry"
         IN homePage' = [homePage EXCEPT
                           !.error = UnableToLoad,
                           !.matches = IF kept THEN @ ELSE NoData,
                           !.standings = IF kept THEN @ ELSE NoData,
                           !.loading = FALSE, !.inFlight = RemoveAt(@, i)]
    /\ UNCHANGED <<matchDetail, detailViewModel, homeViewModel,
                   envVars, elVars, dpVars, stVars, mdVars, fdVars>>

NextHomePage ==
    \/ MountHomePage
    \/ handleLeagueChange
    \/ AutoRefreshTick
    \/ handleRetry
    \/ AllDataResolves
    \/ AllDataRejects

SpecHomePage == InitHomePage /\ [][NextHomePage]_vars

\* every fetch of the page has settled and the page shows data
AllSettledWithData ==
    /\ homePage.mounted
    /\ homePage.inFlight = <<>>
    /\ homePage.error = NoMessage

\* C25: on the home page, once all fetches have settled the matches and
\* standings shown are those of the currently selected league; a late response
\* for a league selected earlier never overwrites them.
C25_ShowsSelectedLeague ==
    AllSettledWithData =>
        /\ homePage.matches = DataOf(homePage.selectedLeague).matches
        /\ homePage.standings = DataOf(homePage.selectedLeague).standings

\* ---------------------------------------------------------------------------
\* Data provider: fetchMatchDetails(matchId) without a league id
\* ---------------------------------------------------------------------------

\* one provider of the search: the adapter and the league it is asked for
Probe(provider, leagueId) == [provider |-> provider, leagueId |-> leagueId]

\* predefinedLeagues.filter(l => l.apiProvider === 'geniussports'), as probes
geniusSportsLeagues ==
    LET IsGenius(l) == l.apiProvider = "geniussports"
        kept == SelectSeq(predefinedLeagues, IsGenius)
    IN [i \in DOMAIN kept |-> Probe("geniussports", kept[i].id)]

\* a search that asks EuroCup before EuroLeague
ProbeOrderEuroCupFirst ==
    <<Probe("mock", "")>> \o geniusSportsLeagues
        \o <<Probe("euroleague", "eurocup"), Probe("euroleague", "euroleague")>>

\* the providers in the order the function asks them
ProbeOrder ==
    <<Probe("mock", "")>> \o geniusSportsLeagues
        \o <<Probe("euroleague", "euroleague"), Probe("euroleague", "eurocup")>>

\* how a provider's fetch of the match details can settle: with the details of
\* the match, with null, or rejected
ProbeOutcomes(probe, matchId) ==
    { [kind |-> "fulfilled",
       value |-> DetailsResult([id |-> matchId, league |-> probe.leagueId,
                                status |-> "completed", hasStats |-> TRUE])],
      [kind |-> "fulfilled", value |-> NullResult],
      [kind |-> "rejected", value |-> NoResult] }

InitProbe ==
    /\ mode = "probe"
    /\ tz \in TimeZones
    /\ now \in Nows
    /\ IdleEL /\ IdleStatus /\ IdleDetails /\ IdleFeed /\ IdleViews
    /\ dpFlag \in BOOLEAN
    /\ dpPc = "idle"
    /\ dpCall = [op |-> "none", leagueId |-> "", matchId |-> ""]
    /\ dpAdapter = [settled |-> "none", err |-> NoError]
    /\ dpResult = NoResult
    /\ dpThrown = NoError
    /\ dpProbes = <<>>

\* fetchMatchDetails(matchId): the mock provider is asked first and its answer
\* returned if it is not null
fetchMatchDetailsAnyLeague ==
    /\ dpPc = "idle"
    /\ \E matchId \in MatchIds :
         LET mockResult == fetchMockMatchDetails(matchId)
         IN /\ dpCall' = [op |-> "fetchMatchDetails", leagueId |-> "", matchId |-> matchId]
            /\ dpProbes' = <<[probe |-> ProbeOrder[1], kind |-> "fulfilled",
                               value |-> mockResult]>>
            /\ IF mockResult.kind = "details"
               THEN dpPc' = "done" /\ dpResult' = mockResult
               ELSE dpPc' = "probing" /\ UNCHANGED dpResult
    /\ UNCHANGED <<dpFlag, dpAdapter, dpThrown, envVars, elVars, stVars, mdVars, fdVars, viewVars>>

\* the provider asked next settles: its details are returned, a null or a
\* rejection moves on to the next provider, and after the last one null is returned
ProbeSettles ==
    /\ dpPc = "probing"
    /\ LET next == ProbeOrder[Len(dpProbes) + 1]
       IN \E outcome \in ProbeOutcomes(next, dpCall.matchId) :
            /\ dpProbes' = Append(dpProbes, [probe |-> next, kind |-> outcome.kind,
                                             value |-> outcome.value])
            /\ IF outcome.kind = "fulfilled" /\ outcome.value.kind = "details"
               THEN dpPc' = "done" /\ dpResult' = outcome.value
               ELSE IF Len(dpProbes) + 1 = Len(ProbeOrder)
                    THEN dpPc' = "done" /\ dpResult' = NullResult
                    ELSE UNCHANGED <<dpPc, dpResult>>
    /\ UNCHANGED <<dpFlag, dpCall, dpAdapter, dpThrown, envVars, elVars, stVars, mdVars, fdVars, viewVars>>

NextProbe == fetchMatchDetailsAnyLeague \/ ProbeSettles

SpecProbe == InitProbe /\ [][NextProbe]_vars

\* the order of the search: mock data, the Genius Sports leagues, EuroLeague, EuroCup
SearchOrder ==
    <<Probe("mock", ""), Probe("geniussports", "super-league"),
      Probe("geniussports", "slb-trophy"), Probe("geniussports", "slb-cup"),
      Probe("euroleague", "euroleague"), Probe("euroleague", "eurocup")>>

\* the i-th provider asked answered null or failed
NotFoundAt(i) ==
    \/ dpProbes[i].kind = "rejected"
    \/ dpProbes[i].value.kind = "null"

\* C26: fetchMatchDetails without a league id never raises; it asks the providers
\* in the order mock data, each Genius Sports league, EuroLeague, EuroCup; it
\* returns the first result that is not null and asks no later provider; a
\* provider's error counts as not found; and it returns null only after every
\* provider has answered null or failed.
C26_ProbesInOrderUntilFound ==
    /\ dpThrown = NoError
    /\ Len(dpProbes) <= Len(SearchOrder)
    /\ \A i \in 1..Len(dpProbes) : dpProbes[i].probe = SearchOrder[i]
    /\ \A i \in 1..(Len(dpProbes) - 1) : NotFoundAt(i)
    /\ dpPc = "done" =>
         LET last == Len(dpProbes)
         IN IF NotFoundAt(last)
            THEN dpResult = NullResult /\ last = Len(SearchOrder)
            ELSE dpResult = dpProbes[last].value /\ dpResult.kind = "details"
    /\ dpPc = "probing" => Len(dpProbes) < Len(SearchOrder)

\* EuroCup, asked last, has the match after a Genius Sports league failed
C26_Witness ==
    /\ dpPc = "done"
    /\ Len(dpProbes) = Len(SearchOrder)
    /\ dpProbes[2].kind = "rejected"
    /\ dpResult.kind = "details"
    /\ dpResult.details[1].league = "eurocup"

\* ---------------------------------------------------------------------------
\* Web match-detail view (MatchDetail component): loads and live polling
\* ---------------------------------------------------------------------------

\* match ids the route can carry
RouteMatchIds == {"1", "7"}

\* statuses a loaded match can have
LoadedStatuses == {"scheduled", "live", "completed"}

\* the state null of match
NoMatch == [id |-> "", status |-> "null"]

\* the live-polling effect on [match, loadMatchDetails] that leaves the interval
\* of the previous run in place
RunPollEffectKeepingInterval(view) ==
    IF view.match.status # "live"
    THEN [view EXCEPT !.cleanup = FALSE]
    ELSE [view EXCEPT !.intervals = @ + 1, !.cleanup = TRUE]

\* the live-polling effect on [match, loadMatchDetails]: the cleanup of the
\* previous run clears the interval it set; then a new interval is set unless
\* match is null or not live
RunPollEffect(view) ==
    LET cleared == IF view.cleanup THEN view.intervals - 1 ELSE view.intervals
    IN IF view.match.status # "live"
       THEN [view EXCEPT !.intervals = cleared, !.cleanup = FALSE]
       ELSE [view EXCEPT !.intervals = cleared + 1, !.cleanup = TRUE]

\* loadMatchDetails(showLoading) up to its await
loadMatchDetails(view, showLoading) ==
    [view EXCEPT !.loading = IF showLoading THEN TRUE ELSE @,
                 !.error = NoMessage,
                 !.inFlight = Append(@, view.matchId)]

InitMatchDetail ==
    /\ mode = "matchdetail"
    /\ tz \in TimeZones /\ now \in Nows
    /\ IdleEL /\ IdleProvider /\ IdleStatus /\ IdleDetails /\ IdleFeed
    /\ homePage = NoView /\ detailViewModel = NoView /\ homeViewModel = NoView
    /\ matchDetail = [mounted |-> FALSE, matchId |-> "", match |-> NoMatch,
                      loading |-> TRUE, error |-> NoMessage, inFlight |-> <<>>,
                      intervals |-> 0, cleanup |-> FALSE]

\* the view mounts on /match/:matchId: both effects run
MountMatchDetail ==
    /\ mode = "matchdetail" /\ ~matchDetail.mounted
    /\ \E matchId \in RouteMatchIds :
         matchDetail' = RunPollEffect(loadMatchDetails(
                            [matchDetail EXCEPT !.mounted = TRUE, !.matchId = matchId,
                                                !.match = NoMatch, !.loading = TRUE,
                                                !.error = NoMessage, !.inFlight = <<>>], TRUE))
    /\ UNCHANGED <<homePage, detailViewModel, homeViewModel,
                   envVars, elVars, dpVars, stVars, mdVars, fdVars>>

\* the route parameter changes: loadMatchDetails is a new callback, so both
\* effects run again
RouteMatchIdChanges ==
    /\ mode = "matchdetail" /\ matchDetail.mounted
    /\ Len(matchDetail.inFlight) < MaxInFlight
    /\ \E matchId \in RouteMatchIds \ {matchDetail.matchId} :
         matchDetail' = RunPollEffect(loadMatchDetails(
                            [matchDetail EXCEPT !.matchId = matchId], TRUE))
    /\ UNCHANGED <<homePage, detailViewModel, homeViewModel,
                   envVars, elVars, dpVars, stVars, mdVars, fdVars>>

\* handleRefresh (the refresh button, not rendered while loading)
handleRefresh ==
    /\ mode = "matchdetail" /\ matchDetail.mounted /\ ~matchDetail.loading
    /\ Len(matchDetail.inFlight) < MaxInFlight
    /\ matchDetail' = loadMatchDetails(matchDetail, TRUE)
    /\ UNCHANGED <<homePage, detailViewModel, homeViewModel,
                   envVars, elVars, dpVars, stVars, mdVars, fdVars>>

\* an active interval fires: loadMatchDetails(false)
LivePollTick ==
    /\ mode = "matchdetail" /\ matchDetail.intervals > 0
    /\ Len(matchDetail.inFlight) < MaxInFlight
    /\ matchDetail' = loadMatchDetails(matchDetail, FALSE)
    /\ UNCHANGED <<homePage, detailViewModel, homeViewModel,
                   envVars, elVars, dpVars, stVars, mdVars, fdVars>>

\* fetchMatchDetails resolves with the details: setMatch, and the polling
\* effect runs for the new match
DetailsLoaded ==
    /\ mode = "matchdetail" /\ matchDetail.mounted
    /\ \E i \in 1..Len(matchDetail.inFlight), status \in LoadedStatuses :
         matchDetail' = RunPollEffect(
                            [matchDetail EXCEPT
                               !.match = [id |-> matchDetail.inFlight[i], status |-> status],
                               !.loading = FALSE, !.inFlight = RemoveAt(@, i)])
    /\ UNCHANGED <<homePage, detailViewModel, homeViewModel,
                   envVars, elVars, dpVars, stVars, mdVars, fdVars>>

\* fetchMatchDetails resolves with null or rejects: setError, match is kept
DetailsNotLoaded ==
    /\ mode = "matchdetail" /\ matchDetail.mounted
    /\ \E i \in 1..Len(matchDetail.inFlight),
          message \in {"Match not found", "Failed to load match details"} :
         matchDetail' = [matchDetail EXCEPT !.error = message, !.loading = FALSE,
                                            !.inFlight = RemoveAt(@, i)]
    /\ UNCHANGED <<homePage, detailViewModel, homeViewModel,
                   envVars, elVars, dpVars, stVars, mdVars, fdVars>>

\* the view unmounts: the cleanup of the polling effect runs; answers to the
\* loads still in flight find no view
UnmountMatchDetail ==
    /\ mode = "matchdetail" /\ matchDetail.mounted
    /\ matchDetail' = [matchDetail EXCEPT
                         !.mounted = FALSE,
                         !.intervals = IF matchDetail.cleanup THEN @ - 1 ELSE @,
                         !.cleanup = FALSE, !.inFlight = <<>>]
    /\ UNCHANGED <<homePage, detailViewModel, homeViewModel,
                   envVars, elVars, dpVars, stVars, mdVars, fdVars>>

NextMatchDetail ==
    \/ MountMatchDetail
    \/ RouteMatchIdChanges
    \/ handleRefresh
    \/ LivePollTick
    \/ DetailsLoaded
    \/ DetailsNotLoaded
    \/ UnmountMatchDetail

SpecMatchDetail == InitMatchDetail /\ [][NextMatchDetail]_vars

\* C27: in the web match-detail view at most one live-poll interval is active at
\* any time; an interval is active only while the view is mounted and the most
\* recently loaded match has status live; so none is active after the view
\* unmounted or after a load returned the match with another status.
C27_OneIntervalOnlyWhileLive ==
    /\ matchDetail.intervals <= 1
    /\ matchDetail.intervals > 0 =>
           (matchDetail.mounted /\ matchDetail.match.status = "live")
    /\ ~matchDetail.mounted => matchDetail.intervals = 0
    /\ matchDetail.match.status \in {"scheduled", "completed"} => matchDetail.intervals = 0

\* a live match is shown, its one interval is active and has fired: the load it
\* started (without the loading state) is in flight
C27_Witness ==
    /\ matchDetail.mounted
    /\ matchDetail.match.status = "live"
    /\ matchDetail.intervals = 1
    /\ ~matchDetail.loading
    /\ matchDetail.inFlight # <<>>

\* ---------------------------------------------------------------------------
\* iOS match-detail view model (MatchDetailViewModel): loads and live polling
\* ---------------------------------------------------------------------------

\* the state nil of matchDetails
NilDetails == [status |-> "nil", setBy |-> "none"]

\* startLivePolling: refreshTimer?.invalidate(), then a new repeating timer
startLivePolling(model) == [model EXCEPT !.refreshTimer = "valid"]

InitDetailViewModel ==
    /\ mode = "detailviewmodel"
    /\ tz \in TimeZones /\ now \in Nows
    /\ IdleEL /\ IdleProvider /\ IdleStatus /\ IdleDetails /\ IdleFeed
    /\ homePage = NoView /\ matchDetail = NoView /\ homeViewModel = NoView
    /\ detailViewModel = [alive |-> FALSE, matchId |-> "", matchDetails |-> NilDetails,
                          isLoading |-> FALSE, errorMessage |-> NoMessage,
                          refreshTimer |-> "nil", inFlight |-> <<>>]

\* init(matchId:)
InitMatchId ==
    /\ mode = "detailviewmodel" /\ ~detailViewModel.alive
    /\ detailViewModel.matchId = ""
    /\ \E matchId \in RouteMatchIds :
         detailViewModel' = [detailViewModel EXCEPT !.alive = TRUE, !.matchId = matchId]
    /\ UNCHANGED <<homePage, matchDetail, homeViewModel,
                   envVars, elVars, dpVars, stVars, mdVars, fdVars>>

\* loadMatchDetails() up to its await
loadMatchDetails_ios ==
    /\ mode = "detailviewmodel" /\ detailViewModel.alive
    /\ Len(detailViewModel.inFlight) < MaxInFlight
    /\ detailViewModel' = [detailViewModel EXCEPT
                             !.isLoading = TRUE, !.errorMessage = NoMessage,
                             !.inFlight = Append(@, "loadMatchDetails")]
    /\ UNCHANGED <<homePage, matchDetail, homeViewModel,
                   envVars, elVars, dpVars, stVars, mdVars, fdVars>>

\* refresh() up to its await, called by the view (pull to refresh)
refresh_ios ==
    /\ mode = "detailviewmodel" /\ detailViewModel.alive
    /\ Len(detailViewModel.inFlight) < MaxInFlight
    /\ detailViewModel' = [detailViewModel EXCEPT
                             !.errorMessage = NoMessage,
                             !.inFlight = Append(@, "refresh")]
    /\ UNCHANGED <<homePage, matchDetail, homeViewModel,
                   envVars, elVars, dpVars, stVars, mdVars, fdVars>>

\* the repeating timer fires: its task calls refresh()
RefreshTimerFires ==
    /\ mode = "detailviewmodel" /\ detailViewModel.alive
    /\ detailViewModel.refreshTimer = "valid"
    /\ Len(detailViewModel.inFlight) < MaxInFlight
    /\ detailViewModel' = [detailViewModel EXCEPT
                             !.errorMessage = NoMessage,
                             !.inFlight = Append(@, "timer refresh")]
    /\ UNCHANGED <<homePage, matchDetail, homeViewModel,
                   envVars, elVars, dpVars, stVars, mdVars, fdVars>>

\* the rest of loadMatchDetails() after fetchMatchDetails returned
LoadReturns ==
    /\ mode = "detailviewmodel" /\ detailViewModel.alive
    /\ \E i \in 1..Len(detailViewModel.inFlight), status \in LoadedStatuses \cup {"nil"} :
         /\ detailViewModel.inFlight[i] = "loadMatchDetails"
         /\ LET rest == [detailViewModel EXCEPT !.isLoading = FALSE,
                                                 !.inFlight = RemoveAt(@, i)]
                set == [rest EXCEPT !.matchDetails = [status |-> status,
                                                      setBy |-> "loadMatchDetails"]]
            IN detailViewModel' =
                 IF status = "nil" THEN [rest EXCEPT !.errorMessage = "Match not found"]
                 ELSE IF status = "live" THEN startLivePolling(set)
                 ELSE set
    /\ UNCHANGED <<homePage, matchDetail, homeViewModel,
                   envVars, elVars, dpVars, stVars, mdVars, fdVars>>

\* the rest of refresh() after fetchMatchDetails returned
RefreshReturns ==
    /\ mode = "detailviewmodel" /\ detailViewModel.alive
    /\ \E i \in 1..Len(detailViewModel.inFlight), status \in LoadedStatuses \cup {"nil"} :
         /\ detailViewModel.inFlight[i] # "loadMatchDetails"
         /\ LET rest == [detailViewModel EXCEPT !.inFlight = RemoveAt(@, i)]
            IN detailViewModel' =
                 IF status = "nil" THEN rest
                 ELSE [rest EXCEPT !.matchDetails = [status |-> status, setBy |-> "refresh"]]
    /\ UNCHANGED <<homePage, matchDetail, homeViewModel,
                   envVars, elVars, dpVars, stVars, mdVars, fdVars>>

\* deinit: refreshTimer?.invalidate(); tasks in flight hold self weakly
Deinit ==
    /\ mode = "detailviewmodel" /\ detailViewModel.alive
    /\ detailViewModel' = [detailViewModel EXCEPT
                             !.alive = FALSE, !.inFlight = <<>>,
                             !.refreshTimer = IF @ = "valid" THEN "invalidated" ELSE @]
    /\ UNCHANGED <<homePage, matchDetail, homeViewModel,
                   envVars, elVars, dpVars, stVars, mdVars, fdVars>>

NextDetailViewModel ==
    \/ InitMatchId
    \/ loadMatchDetails_ios
    \/ refresh_ios
    \/ RefreshTimerFires
    \/ LoadReturns
    \/ RefreshReturns
    \/ Deinit

SpecDetailViewModel == InitDetailViewModel /\ [][NextDetailViewModel]_vars

\* C28: in the iOS match-detail view model, once a refresh has returned the match
\* with a status other than live, the 30-second polling has stopped: no timer is
\* left that will start further refreshes.
C28_PollingStopsWhenNotLive ==
    (/\ detailViewModel.matchDetails.setBy = "refresh"
     /\ detailViewModel.matchDetails.status \in {"scheduled", "completed"})
        => detailViewModel.refreshTimer # "valid"

\* ---------------------------------------------------------------------------
\* iOS home view model (HomeViewModel): auto-refresh timer and app activity
\* ---------------------------------------------------------------------------

\* no timer task has run yet
NoTick == [ran |-> FALSE, isAppActive |-> TRUE, refreshed |-> FALSE]

\* a startAutoRefresh that schedules a timer without invalidating the one before
startAutoRefreshKeepingTimer(model) ==
    IF ~model.isAppActive THEN model
    ELSE [model EXCEPT !.timers = @ + 1, !.refreshTimer = "valid"]

\* startAutoRefresh: nothing unless isAppActive; else refreshTimer?.invalidate()
\* and a new repeating timer
startAutoRefresh(model) ==
    IF ~model.isAppActive THEN model
    ELSE [model EXCEPT
            !.timers = (IF model.refreshTimer = "valid" THEN @ - 1 ELSE @) + 1,
            !.refreshTimer = "valid"]

\* refresh() up to its await
refresh_home(model, from) ==
    [model EXCEPT !.errorMessage = NoMessage, !.inFlight = Append(@, from)]

InitHomeViewModel ==
    /\ mode = "homeviewmodel"
    /\ tz \in TimeZones /\ now \in Nows
    /\ IdleEL /\ IdleProvider /\ IdleStatus /\ IdleDetails /\ IdleFeed
    /\ homePage = NoView /\ matchDetail = NoView /\ detailViewModel = NoView
    /\ homeViewModel = [alive |-> FALSE, isAppActive |-> TRUE, refreshTimer |-> "nil",
                        timers |-> 0, tasks |-> 0, inFlight |-> <<>>,
                        isLoading |-> FALSE, errorMessage |-> NoMessage,
                        loaded |-> 0, tick |-> NoTick]

\* init(): setupNotificationObservers() and startAutoRefresh()
init_home ==
    /\ mode = "homeviewmodel" /\ ~homeViewModel.alive /\ homeViewModel.timers = 0
    /\ homeViewModel.refreshTimer = "nil"
    /\ homeViewModel' = startAutoRefresh([homeViewModel EXCEPT !.alive = TRUE])
    /\ UNCHANGED <<homePage, matchDetail, detailViewModel,
                   envVars, elVars, dpVars, stVars, mdVars, fdVars>>

\* loadData() up to its await (the view's task)
loadData ==
    /\ mode = "homeviewmodel" /\ homeViewModel.alive
    /\ Len(homeViewModel.inFlight) < MaxInFlight
    /\ homeViewModel' = [homeViewModel EXCEPT
                           !.isLoading = TRUE, !.errorMessage = NoMessage,
                           !.inFlight = Append(@, "loadData")]
    /\ UNCHANGED <<homePage, matchDetail, detailViewModel,
                   envVars, elVars, dpVars, stVars, mdVars, fdVars>>

\* didBecomeActive: isAppActive = true, startAutoRefresh(), and a task that refreshes
handleAppBecameActive ==
    /\ mode = "homeviewmodel" /\ homeViewModel.alive
    /\ Len(homeViewModel.inFlight) < MaxInFlight
    /\ homeViewModel' = refresh_home(startAutoRefresh(
                            [homeViewModel EXCEPT !.isAppActive = TRUE]), "became active")
    /\ UNCHANGED <<homePage, matchDetail, detailViewModel,
                   envVars, elVars, dpVars, stVars, mdVars, fdVars>>

\* willResignActive: isAppActive = false, the timer is invalidated and forgotten
handleAppWillResignActive ==
    /\ mode = "homeviewmodel" /\ homeViewModel.alive
    /\ homeViewModel' = [homeViewModel EXCEPT
                           !.isAppActive = FALSE,
                           !.timers = IF homeViewModel.refreshTimer = "valid" THEN @ - 1 ELSE @,
                           !.refreshTimer = "nil"]
    /\ UNCHANGED <<homePage, matchDetail, detailViewModel,
                   envVars, elVars, dpVars, stVars, mdVars, fdVars>>

\* a scheduled timer fires: it enqueues its task on the main actor
AutoRefreshTimerFires ==
    /\ mode = "homeviewmodel" /\ homeViewModel.alive
    /\ homeViewModel.timers > 0
    /\ homeViewModel.tasks < MaxInFlight
    /\ homeViewModel' = [homeViewModel EXCEPT !.tasks = @ + 1]
    /\ UNCHANGED <<homePage, matchDetail, detailViewModel,
                   envVars, elVars, dpVars, stVars, mdVars, fdVars>>

\* the timer's task runs: guard isAppActive == true, then refresh()
AutoRefreshTaskRuns ==
    /\ mode = "homeviewmodel" /\ homeViewModel.alive
    /\ homeViewModel.tasks > 0
    /\ Len(homeViewModel.inFlight) < MaxInFlight
    /\ LET ran == [homeViewModel EXCEPT
                     !.tasks = @ - 1,
                     !.tick = [ran |-> TRUE, isAppActive |-> homeViewModel.isAppActive,
                               refreshed |-> homeViewModel.isAppActive]]
       IN homeViewModel' = IF homeViewModel.isAppActive
                           THEN refresh_home(ran, "timer") ELSE ran
    /\ UNCHANGED <<homePage, matchDetail, detailViewModel,
                   envVars, elVars, dpVars, stVars, mdVars, fdVars>>

\* fetchAllData returns to loadData() or refresh(): matches and standings are set
AllDataReturns ==
    /\ mode = "homeviewmodel" /\ homeViewModel.alive
    /\ \E i \in 1..Len(homeViewModel.inFlight) :
         homeViewModel' = [homeViewModel EXCEPT
                             !.loaded = 1,
                             !.isLoading = IF homeViewModel.inFlight[i] = "loadData"
                                           THEN FALSE ELSE @,
                             !.inFlight = RemoveAt(@, i)]
    /\ UNCHANGED <<homePage, matchDetail, detailViewModel,
                   envVars, elVars, dpVars, stVars, mdVars, fdVars>>

\* deinit: refreshTimer?.invalidate(); the observers are removed
deinit_home ==
    /\ mode = "homeviewmodel" /\ homeViewModel.alive
    /\ homeViewModel' = [homeViewModel EXCEPT
                           !.alive = FALSE, !.tasks = 0, !.inFlight = <<>>,
                           !.timers = IF homeViewModel.refreshTimer = "valid" THEN @ - 1 ELSE @,
                           !.refreshTimer = "invalidated"]
    /\ UNCHANGED <<homePage, matchDetail, detailViewModel,
                   envVars, elVars, dpVars, stVars, mdVars, fdVars>>

NextHomeViewModel ==
    \/ init_home
    \/ loadData
    \/ handleAppBecameActive
    \/ handleAppWillResignActive
    \/ AutoRefreshTimerFires
    \/ AutoRefreshTaskRuns
    \/ AllDataReturns
    \/ deinit_home

SpecHomeViewModel == InitHomeViewModel /\ [][NextHomeViewModel]_vars

\* C29: in the iOS home view model, after any sequence of init, become-active
\* and resign-active events, an auto-refresh timer exists only while the app is
\* active, at most one timer exists at any time, and a timer task that runs
\* while the app is inactive performs no refresh.
C29_OneTimerOnlyWhileActive ==
    /\ homeViewModel.timers <= 1
    /\ homeViewModel.timers > 0 => (homeViewModel.alive /\ homeViewModel.isAppActive)
    /\ (homeViewModel.tick.ran /\ ~homeViewModel.tick.isAppActive) =>
           ~homeViewModel.tick.refreshed

\* the app became active a second time and has one timer, after a timer's task
\* ran while the app was inactive
C29_Witness ==
    /\ homeViewModel.alive /\ homeViewModel.isAppActive
    /\ homeViewModel.timers = 1
    /\ homeViewModel.tick.ran /\ ~homeViewModel.tick.isAppActive

\* ---------------------------------------------------------------------------
\* Genius Sports adapter: quarter scores from the play-by-play page
\* ---------------------------------------------------------------------------

\* .pbpa elements of one page
MaxActions == 7

\* text of the .pbp-action element
PeriodEndText == <<"P", "e", "r", "i", "o", "d", " ", "e", "n", "d">>
ShotText == <<"2", "p", "t", " ", "m", "a", "d", "e">>

\* the .pbpsc element of an action: absent, or text the pattern (\d+)-(\d+)
\* matches with these two numbers
NoScoreEl == [k |-> "absent", home |-> 0, away |-> 0]
ScoreEl(home, away) == [k |-> "score", home |-> home, away |-> away]

\* the .pbpa elements of a game played as the given plays, scores running
RECURSIVE ActionsOf(_, _, _)
ActionsOf(plays, home, away) ==
    IF plays = <<>> THEN <<>>
    ELSE LET play == Head(plays)
             h == IF play = "home scores" THEN home + 2 ELSE home
             a == IF play = "away scores" THEN away + 3 ELSE away
         IN <<[scoreEl |-> IF play = "period end" THEN NoScoreEl ELSE ScoreEl(h, a),
               action |-> IF play = "period end" THEN PeriodEndText ELSE ShotText]>>
            \o ActionsOf(Tail(plays), h, a)

PlayKinds == {"home scores", "away scores", "period end"}

PlaySequences == UNION {[1..n -> PlayKinds] : n \in 0..MaxActions}

\* a property of quarterScores that was not set
NotSet == [set |-> FALSE, home |-> 0, away |-> 0]
Score(home, away) == [set |-> TRUE, home |-> home, away |-> away]

\* the forEach over the actions: lastScore follows the score elements, and every
\* action whose text includes 'period end' pushes a copy of lastScore
RECURSIVE periodEndScoresFrom(_, _)
periodEndScoresFrom(actions, lastScore) ==
    IF actions = <<>> THEN <<>>
    ELSE LET action == Head(actions)
             score == IF action.scoreEl.k = "score"
                      THEN [home |-> action.scoreEl.home, away |-> action.scoreEl.away]
                      ELSE lastScore
         IN (IF Includes(ToLowerCase(action.action), ToLowerCase(PeriodEndText))
             THEN <<score>> ELSE <<>>)
            \o periodEndScoresFrom(Tail(actions), score)

\* the quarter scores from the cumulative scores: q1 is the first, q2..q4 and ot
\* the difference of the second..fifth to the one before
quarterScoresOf(periodEndScores) ==
    LET n == Len(periodEndScores)
        Diff(i) == Score(periodEndScores[i].home - periodEndScores[i - 1].home,
                         periodEndScores[i].away - periodEndScores[i - 1].away)
    IN [q1 |-> IF n >= 1 THEN Score(periodEndScores[1].home, periodEndScores[1].away)
               ELSE NotSet,
        q2 |-> IF n >= 2 THEN Diff(2) ELSE NotSet,
        q3 |-> IF n >= 3 THEN Diff(3) ELSE NotSet,
        q4 |-> IF n >= 4 THEN Diff(4) ELSE NotSet,
        ot |-> IF n >= 5 THEN Diff(5) ELSE NotSet]

parsePlayByPlayHTML(actions) ==
    quarterScoresOf(periodEndScoresFrom(actions, [home |-> 0, away |-> 0]))

InitPlayByPlay ==
    /\ mode = "playbyplay"
    /\ tz \in TimeZones
    /\ now \in Nows
    /\ IdleEL
    /\ IdleProvider
    /\ IdleDetails
    /\ IdleFeed
    /\ IdleViews
    /\ IdleStatus

ApplyParsePlayByPlayHTML ==
    /\ stOp = "none"
    /\ \E plays \in PlaySequences :
         LET actions == ActionsOf(plays, 0, 0)
         IN /\ stIn' = [source |-> "geniussports", actions |-> actions]
            /\ stOut' = [status |-> "none", quarterScores |-> parsePlayByPlayHTML(actions)]
    /\ stOp' = "parsePlayByPlayHTML"
    /\ UNCHANGED <<stAgain, envVars, elVars, dpVars, mdVars, fdVars, viewVars>>

NextPlayByPlay == ApplyParsePlayByPlayHTML

SpecPlayByPlay == InitPlayByPlay /\ [][NextPlayByPlay]_vars

\* positions of the period-end markers of the page
PeriodEndMarkers ==
    {i \in 1..Len(stIn.actions) : stIn.actions[i].action = PeriodEndText}

\* the cumulative score at an action: that of the last score shown up to it
CumulativeAt(i) ==
    LET shown == {j \in 1..i : stIn.actions[j].scoreEl.k = "score"}
    IN IF shown = {} THEN [home |-> 0, away |-> 0]
       ELSE LET j == CHOOSE j \in shown : \A k \in shown : k <= j
            IN [home |-> stIn.actions[j].scoreEl.home, away |-> stIn.actions[j].scoreEl.away]

\* the sum of the quarter scores that were set
SumOfQuarters(q) ==
    [home |-> q.q1.home + q.q2.home + q.q3.home + q.q4.home + q.ot.home,
     away |-> q.q1.away + q.q2.away + q.q3.away + q.q4.away + q.ot.away]

\* C30: for any number of period-end markers in a play-by-play page, the quarter
\* scores parsePlayByPlayHTML emits (q1..q4, and ot when present) sum, for each
\* team, to the cumulative score at the last period-end marker.
C30_QuartersSumToLastMarker ==
    (stOp = "parsePlayByPlayHTML" /\ PeriodEndMarkers # {}) =>
        LET last == CHOOSE i \in PeriodEndMarkers : \A k \in PeriodEndMarkers : k <= i
        IN SumOfQuarters(stOut.quarterScores) = CumulativeAt(last)

====
